---- MODULE Spec2Model ----
(***************************************************************************)
(* Model of streamlink's HLS playlist parser                               *)
(* (src/streamlink/stream/hls_playlist.py): M3U8Parser.parse, the line     *)
(* state machine parse_line, the tag handlers, the attribute-list parser   *)
(* and the scalar decoders.  Lines are strings and are matched character   *)
(* by character, as the regular expressions of the source match them.      *)
(***************************************************************************)
EXTENDS Integers, Sequences, FiniteSets, TLC

\* ------------------------------------------------------------------------
\* Optional values: None is <<>>, a present value v is <<v>>.
None == <<>>

Some(v) == <<v>>

\* ------------------------------------------------------------------------
\* Characters and character classes of the regular expressions.
Char(s, i) == SubSeq(s, i, i)

Digits == {"0", "1", "2", "3", "4", "5", "6", "7", "8", "9"}

UpperLetters ==
    {"A", "B", "C", "D", "E", "F", "G", "H", "I", "J", "K", "L", "M",
     "N", "O", "P", "Q", "R", "S", "T", "U", "V", "W", "X", "Y", "Z"}

LowerLetters ==
    {"a", "b", "c", "d", "e", "f", "g", "h", "i", "j", "k", "l", "m",
     "n", "o", "p", "q", "r", "s", "t", "u", "v", "w", "x", "y", "z"}

HexChars == Digits \cup {"A", "B", "C", "D", "E", "F", "a", "b", "c", "d", "e", "f"}

\* \w
WordChars == Digits \cup UpperLetters \cup LowerLetters \cup {"_"}

\* \s
SpaceChars == {" ", "\t", "\n", "\r", "\f"}

DigitVal ==
    ("0" :> 0) @@ ("1" :> 1) @@ ("2" :> 2) @@ ("3" :> 3) @@ ("4" :> 4) @@
    ("5" :> 5) @@ ("6" :> 6) @@ ("7" :> 7) @@ ("8" :> 8) @@ ("9" :> 9)

HexVal ==
    DigitVal @@
    ("a" :> 10) @@ ("b" :> 11) @@ ("c" :> 12) @@ ("d" :> 13) @@ ("e" :> 14) @@ ("f" :> 15) @@
    ("A" :> 10) @@ ("B" :> 11) @@ ("C" :> 12) @@ ("D" :> 13) @@ ("E" :> 14) @@ ("F" :> 15)

\* End (exclusive) of the longest run of characters of class cls that starts
\* at position pos of s: what a greedy cls* consumes.
RECURSIVE RunEnd(_, _, _)
RunEnd(s, pos, cls) ==
    IF pos <= Len(s) /\ Char(s, pos) \in cls THEN RunEnd(s, pos + 1, cls) ELSE pos

\* End of the longest run of characters NOT in class cls.
RECURSIVE RunEndNot(_, _, _)
RunEndNot(s, pos, cls) ==
    IF pos <= Len(s) /\ Char(s, pos) \notin cls THEN RunEndNot(s, pos + 1, cls) ELSE pos

StartsWith(s, p) == Len(s) >= Len(p) /\ SubSeq(s, 1, Len(p)) = p

\* str.strip()
RECURSIVE LStrip(_)
LStrip(s) == IF Len(s) > 0 /\ Char(s, 1) \in SpaceChars THEN LStrip(SubSeq(s, 2, Len(s))) ELSE s

RECURSIVE RStrip(_)
RStrip(s) ==
    IF Len(s) > 0 /\ Char(s, Len(s)) \in SpaceChars THEN RStrip(SubSeq(s, 1, Len(s) - 1)) ELSE s

Strip(s) == LStrip(RStrip(s))

\* Value of a string of decimal digits.
RECURSIVE DecVal(_)
DecVal(s) == IF Len(s) = 0 THEN 0 ELSE 10 * DecVal(SubSeq(s, 1, Len(s) - 1)) + DigitVal[Char(s, Len(s))]

IsDigits(s) == Len(s) > 0 /\ RunEnd(s, 1, Digits) = Len(s) + 1

RECURSIVE Pow10(_)
Pow10(n) == IF n <= 0 THEN 1 ELSE 10 * Pow10(n - 1)

Signed(neg, n) == IF neg THEN 0 - n ELSE n

IntBody(neg, body) == IF IsDigits(body) THEN Some(Signed(neg, DecVal(body))) ELSE None

\* int(value): an optional sign and decimal digits; anything else raises
\* ValueError, which is the result None here.
py_int(value) ==
    IF Len(value) > 0 /\ Char(value, 1) \in {"+", "-"}
    THEN IntBody(Char(value, 1) = "-", SubSeq(value, 2, Len(value)))
    ELSE IntBody(FALSE, value)

\* A decimal number num / 10^exp with trailing zeros of the fraction removed,
\* so that 10.50 and 10.5 are the same float.
RECURSIVE Normalize(_, _)
Normalize(num, exp) ==
    IF exp > 0 /\ num % 10 = 0 THEN Normalize(num \div 10, exp - 1) ELSE [num |-> num, exp |-> exp]

FloatValue(neg, ipart, fpart) ==
    IF Len(ipart) + Len(fpart) = 0 \/ (fpart # "" /\ ~IsDigits(fpart)) THEN None
    ELSE Some(Normalize(Signed(neg, DecVal(ipart \o fpart)), Len(fpart)))

FloatParts(neg, body, e1) ==
    IF e1 <= Len(body) /\ Char(body, e1) = "."
    THEN FloatValue(neg, SubSeq(body, 1, e1 - 1), SubSeq(body, e1 + 1, Len(body)))
    ELSE IF e1 = Len(body) + 1 THEN FloatValue(neg, body, "")
    ELSE None

FloatBody(neg, body) == FloatParts(neg, body, RunEnd(body, 1, Digits))

\* float(value) for the decimal forms [sign] digits [. digits]; anything else
\* raises ValueError (None).
py_float(value) ==
    IF Len(value) > 0 /\ Char(value, 1) \in {"+", "-"}
    THEN FloatBody(Char(value, 1) = "-", SubSeq(value, 2, Len(value)))
    ELSE FloatBody(FALSE, value)

FloatZero == [num |-> 0, exp |-> 0]

\* ------------------------------------------------------------------------
\* Typed records of the Document (the NamedTuples of the source).
ExtInf(duration, title) == [duration |-> duration, title |-> title]

ByteRange(range, offset) == [range |-> range, offset |-> offset]

Resolution(width, height) == [width |-> width, height |-> height]

\* ------------------------------------------------------------------------
\* The attribute mapping: a function from attribute names to raw strings.
EmptyAttr == [k \in {} |-> ""]

\* dict.get(key): None when the key is absent.
Get(attr, key) == IF key \in DOMAIN attr THEN Some(attr[key]) ELSE None

\* dict.get(key, default)
GetDefault(attr, key, default) == IF key \in DOMAIN attr THEN attr[key] ELSE default

\* Truth value of an Optional[str]: None and "" are false.
Truthy(opt) == opt # None /\ opt[1] # ""

TagMatch(line, e) ==
    IF Len(line) >= 2 /\ Char(line, 1) = "#" /\ e > 2
    THEN <<Some(SubSeq(line, 2, e - 1)),
           Some(Strip(IF e + 1 <= Len(line) /\ Char(line, e) = ":"
                      THEN SubSeq(line, e + 1, Len(line)) ELSE ""))>>
    ELSE <<None, None>>

\* _tag_re = #(?P<tag>[\w-]+)(:(?P<value>.+))?  matched at the start of the
\* line; the result is <<tag, value>> with value = (group or "").strip(), and
\* <<None, None>> when the line does not match.
split_tag(line) == TagMatch(line, RunEnd(line, 2, WordChars \cup {"-"}))

\* Greedy \d+ at pos: its end (exclusive), or 0 for no match.
DigitsEnd(s, pos, e) == IF e > pos THEN e ELSE 0

\* \d+ c \d+ at pos, e1 the end of the first run of digits.
TwoNumbersEnd(s, pos, c, e1, e2) ==
    IF e1 > pos /\ e1 <= Len(s) /\ Char(s, e1) = c /\ e2 > e1 + 1 THEN e2 ELSE 0

TwoNumbers(s, pos, c, e1) == TwoNumbersEnd(s, pos, c, e1, RunEnd(s, e1 + 1, Digits))

\* _attr_re, the alternatives of the value group in the order of the source.
\* Each returns the end (exclusive) of its match at pos, or 0 for no match.
AttrDecimalInteger(s, pos) == DigitsEnd(s, pos, RunEnd(s, pos, Digits))

AttrHexadecimal(s, pos) ==
    IF pos + 1 <= Len(s) /\ Char(s, pos) = "0" /\ Char(s, pos + 1) \in {"x", "X"}
    THEN DigitsEnd(s, pos + 2, RunEnd(s, pos + 2, HexChars))
    ELSE 0

AttrFloat(s, pos) ==
    IF pos <= Len(s) /\ Char(s, pos) = "-"
    THEN TwoNumbers(s, pos + 1, ".", RunEnd(s, pos + 1, Digits))
    ELSE TwoNumbers(s, pos, ".", RunEnd(s, pos, Digits))

QuotedEnd(s, pos, e) ==
    IF pos <= Len(s) /\ Char(s, pos) = "\"" /\ e <= Len(s) /\ Char(s, e) = "\"" THEN e + 1 ELSE 0

AttrQuoted(s, pos) == QuotedEnd(s, pos, RunEndNot(s, pos + 1, {"\"", "\r", "\n"}))

AttrEnumerated(s, pos) == DigitsEnd(s, pos, RunEndNot(s, pos, {"\"", ","} \cup SpaceChars))

AttrResolution(s, pos) == TwoNumbers(s, pos, "x", RunEnd(s, pos, Digits))

SeparatorAt(s, w) ==
    IF w <= Len(s) /\ Char(s, w) = "," THEN RunEnd(s, w + 1, SpaceChars)
    ELSE IF w = Len(s) + 1 THEN w
    ELSE 0

\* The tail of _attr_re, \s*(?:,\s*|$), at position e: the end of the match,
\* or 0 when neither a comma nor the end of the string follows the spaces.
AttrSeparator(s, e) == SeparatorAt(s, RunEnd(s, e, SpaceChars))

\* An alternative that matched up to e (0: no match) is taken when the tail
\* of the expression matches behind it.
AltOk(s, e) == e # 0 /\ AttrSeparator(s, e) # 0

\* The value group at vs: <<end, quoted>> of the first alternative that the
\* regex engine can complete, <<0, FALSE>> if there is none.  Every
\* alternative is a greedy run whose shorter prefixes are followed by a
\* character of the run, never by a separator, so only the longest match of
\* each alternative is tried.
AttrValue(s, vs) ==
    IF AltOk(s, AttrDecimalInteger(s, vs)) THEN <<AttrDecimalInteger(s, vs), FALSE>>
    ELSE IF AltOk(s, AttrHexadecimal(s, vs)) THEN <<AttrHexadecimal(s, vs), FALSE>>
    ELSE IF AltOk(s, AttrFloat(s, vs)) THEN <<AttrFloat(s, vs), FALSE>>
    ELSE IF AltOk(s, AttrQuoted(s, vs)) THEN <<AttrQuoted(s, vs), TRUE>>
    ELSE IF AltOk(s, AttrEnumerated(s, vs)) THEN <<AttrEnumerated(s, vs), FALSE>>
    ELSE IF AltOk(s, AttrResolution(s, vs)) THEN <<AttrResolution(s, vs), FALSE>>
    ELSE <<0, FALSE>>

\* The match object: match.end(), match["key"], and match["quoted"] when the
\* quoted alternative matched, else match["value"].
AttrEntry(s, pos, ke, m) ==
    IF m[1] = 0 THEN None
    ELSE Some([end   |-> AttrSeparator(s, m[1]),
               key   |-> SubSeq(s, pos, ke - 1),
               value |-> IF m[2] THEN SubSeq(s, ke + 2, m[1] - 2) ELSE SubSeq(s, ke + 1, m[1] - 1)])

AttrKey(s, pos, ke) ==
    IF ke = pos \/ ke > Len(s) \/ Char(s, ke) # "=" THEN None
    ELSE AttrEntry(s, pos, ke, AttrValue(s, ke + 1))

\* One match of _attr_re at pos: the match object or None.
AttrMatch(s, pos) == AttrKey(s, pos, RunEnd(s, pos, UpperLetters \cup Digits \cup {"-"}))

\* parse_attributes: the while loop from position pos with the mapping res.
RECURSIVE AttrLoop(_, _, _)
\* A loop that keeps the entries matched so far when an entry fails to match.
AttrStepKeepsEntries(value, res, match) ==
    IF match = None THEN res
    ELSE AttrLoop(value, match[1].end, (match[1].key :> match[1].value) @@ res)

AttrStep(value, res, match) ==
    IF match = None THEN EmptyAttr
    ELSE AttrLoop(value, match[1].end, (match[1].key :> match[1].value) @@ res)

AttrLoop(value, pos, res) ==
    IF pos > Len(value) THEN res ELSE AttrStep(value, res, AttrMatch(value, pos))

parse_attributes(value) == AttrLoop(value, 1, EmptyAttr)

parse_bool(value) == value = "YES"

ByteRangeMatch(value, e1, e2) ==
    IF e1 = 1 THEN None
    ELSE Some(ByteRange(DecVal(SubSeq(value, 1, e1 - 1)),
                        IF e1 <= Len(value) /\ Char(value, e1) = "@" /\ e2 > e1 + 1
                        THEN Some(DecVal(SubSeq(value, e1 + 1, e2 - 1))) ELSE None))

ByteRangeAt(value, e1) == ByteRangeMatch(value, e1, RunEnd(value, e1 + 1, Digits))

\* _range_re = (?P<range>\d+)(?:@(?P<offset>\d+))?  matched at the start.
parse_byterange(value) == ByteRangeAt(value, RunEnd(value, 1, Digits))

\* The groups of _extinf_re given de, the end of the duration group.
ExtInfGroups(value, de) ==
    ExtInf(py_float(SubSeq(value, 1, de - 1))[1],
           IF de + 1 <= Len(value) /\ Char(value, de) = ","
           THEN Some(SubSeq(value, de + 1, Len(value))) ELSE None)

ExtInfMatch(value, e1, e2) ==
    IF e1 = 1 THEN ExtInf(FloatZero, None)
    ELSE IF e1 <= Len(value) /\ Char(value, e1) = "." /\ e2 > e1 + 1 THEN ExtInfGroups(value, e2)
    ELSE ExtInfGroups(value, e1)

ExtInfAt(value, e1) == ExtInfMatch(value, e1, RunEnd(value, e1 + 1, Digits))

\* _extinf_re = (?P<duration>\d+(\.\d+)?)(,(?P<title>.+))?  matched at the start.
parse_extinf(value) == ExtInfAt(value, RunEnd(value, 1, Digits))

ResolutionMatch(value, e1, e2) ==
    IF e2 = 0 THEN Resolution(0, 0)
    ELSE Resolution(DecVal(SubSeq(value, 1, e1 - 1)), DecVal(SubSeq(value, e1 + 1, e2 - 1)))

ResolutionAt(value, e1) == ResolutionMatch(value, e1, TwoNumbers(value, 1, "x", e1))

\* _res_re = (\d+)x(\d+)  matched at the start.
parse_resolution(value) == ResolutionAt(value, RunEnd(value, 1, Digits))

\* unhexlify of a string of hexadecimal digits of even length: its bytes.
RECURSIVE HexBytes(_)
HexBytes(s) ==
    IF Len(s) = 0 THEN <<>>
    ELSE <<16 * HexVal[Char(s, 1)] + HexVal[Char(s, 2)]>> \o HexBytes(SubSeq(s, 3, Len(s)))

\* unhexlify(padded): BinasciiError (None) on a character that is no
\* hexadecimal digit or on an odd length.
Unhexlify(padded) ==
    IF Len(padded) % 2 = 0 /\ RunEnd(padded, 1, HexChars) = Len(padded) + 1
    THEN Some(HexBytes(padded)) ELSE None

HexString(v) ==
    IF Len(v) >= 2 /\ SubSeq(v, 1, 2) \in {"0x", "0X"}
    THEN Unhexlify((IF Len(v) % 2 = 1 THEN "0" ELSE "") \o SubSeq(v, 3, Len(v)))
    ELSE None

\* parse_hex: value is an Optional[str]; the result is None (absent or
\* invalid) or the byte sequence.
parse_hex(value) == IF value = None THEN None ELSE HexString(value[1])

IsoShape(v) ==
    /\ Len(v) \in {19, 20}
    /\ \A i \in {1, 2, 3, 4, 6, 7, 9, 10, 12, 13, 15, 16, 18, 19} : Char(v, i) \in Digits
    /\ Char(v, 5) = "-" /\ Char(v, 8) = "-" /\ Char(v, 11) = "T"
    /\ Char(v, 14) = ":" /\ Char(v, 17) = ":"
    /\ (Len(v) = 20 => Char(v, 20) = "Z")

DateTime(year, month, day, hour, minute, second) ==
    IF month \in 1..12 /\ day \in 1..31 /\ hour \in 0..23 /\ minute \in 0..59 /\ second \in 0..59
    THEN Some([year |-> year, month |-> month, day |-> day,
               hour |-> hour, minute |-> minute, second |-> second])
    ELSE None

\* isodate.parse_datetime for the extended format YYYY-MM-DDTHH:MM:SS with
\* an optional trailing Z; every other string is an ISO8601Error (None).
parse_datetime(v) ==
    IF IsoShape(v)
    THEN DateTime(DecVal(SubSeq(v, 1, 4)), DecVal(SubSeq(v, 6, 7)), DecVal(SubSeq(v, 9, 10)),
                  DecVal(SubSeq(v, 12, 13)), DecVal(SubSeq(v, 15, 16)), DecVal(SubSeq(v, 18, 19)))
    ELSE None

\* parse_iso8601: value is an Optional[str]; the ISO8601Error is caught and
\* becomes None.
parse_iso8601(value) == IF value = None THEN None ELSE parse_datetime(value[1])

\* A value that an expression computed, or the exception that left it.
Value(v) == [raised |-> FALSE, value |-> v]

Raised == [raised |-> TRUE, value |-> None]

TimeDelta(seconds) == IF seconds = None THEN Raised ELSE Value(Some([seconds |-> seconds[1]]))

\* parse_timedelta: None for an absent value, else timedelta(seconds=float(value));
\* float() raises ValueError on a malformed string.
parse_timedelta(value) == IF value = None THEN Value(None) ELSE TimeDelta(py_float(value[1]))

\* str.split(",")
RECURSIVE SplitComma(_)
SplitAt(s, e) ==
    IF e > Len(s) THEN <<s>>
    ELSE <<SubSeq(s, 1, e - 1)>> \o SplitComma(SubSeq(s, e + 1, Len(s)))

SplitComma(s) == SplitAt(s, RunEndNot(s, 1, {","}))

\* Number of decimal digits of a positive integer.
RECURSIVE NumDigits(_)
NumDigits(n) == IF n < 10 THEN 1 ELSE 1 + NumDigits(n \div 10)

\* int(math.log10(n)) for a positive integer n (exact below 10^15, where the
\* floating-point logarithm cannot reach the next integer).
IntLog10(n) == NumDigits(n) - 1

\* A rounding that sends an exact half to the larger multiple.
RoundHalfUp(n, m) ==
    IF 2 * (n % m) < m THEN (n \div m) * m ELSE ((n \div m) + 1) * m

\* n rounded to a multiple of m, a half going to the even multiple.
RoundToMultiple(n, m) ==
    IF 2 * (n % m) < m THEN (n \div m) * m
    ELSE IF 2 * (n % m) > m THEN ((n \div m) + 1) * m
    ELSE IF (n \div m) % 2 = 0 THEN (n \div m) * m
    ELSE ((n \div m) + 1) * m

\* round(n, ndigits) of an integer n.
py_round(n, ndigits) == IF ndigits >= 0 THEN n ELSE RoundToMultiple(n, Pow10(0 - ndigits))

\* round(int(_bandwidth), 1 - int(math.log10(int(_bandwidth)))) given
\* n = int(_bandwidth): int() raised ValueError (None), or math.log10 raises
\* ValueError on a value <= 0.
RoundBandwidth(n) ==
    IF n = None THEN Raised
    ELSE IF n[1] <= 0 THEN Raised
    ELSE Value(py_round(n[1], 1 - IntLog10(n[1])))

\* bandwidth = 0 if not _bandwidth else round(...)
Bandwidth(bw) == IF ~Truthy(bw) THEN Value(0) ELSE RoundBandwidth(py_int(bw[1]))

StreamInfoResolution(res) == IF ~Truthy(res) THEN None ELSE Some(parse_resolution(res[1]))

StreamInfoCodecs(cod) == SplitComma(IF Truthy(cod) THEN cod[1] ELSE "")

StreamInfoRecord(sinf, iframe, bandwidth) ==
    IF bandwidth.raised THEN Raised
    ELSE IF iframe
    THEN Value([bandwidth |-> bandwidth.value,
                program_id |-> Get(sinf, "PROGRAM-ID"),
                codecs |-> StreamInfoCodecs(Get(sinf, "CODECS")),
                resolution |-> StreamInfoResolution(Get(sinf, "RESOLUTION")),
                video |-> Get(sinf, "VIDEO")])
    ELSE Value([bandwidth |-> bandwidth.value,
                program_id |-> Get(sinf, "PROGRAM-ID"),
                codecs |-> StreamInfoCodecs(Get(sinf, "CODECS")),
                resolution |-> StreamInfoResolution(Get(sinf, "RESOLUTION")),
                audio |-> Get(sinf, "AUDIO"),
                video |-> Get(sinf, "VIDEO"),
                subtitles |-> Get(sinf, "SUBTITLES")])

\* create_stream_info(streaminf, streaminfoclass): the StreamInfo or
\* (iframe = TRUE) IFrameStreamInfo record, or the ValueError of the
\* bandwidth expression.
create_stream_info(sinf, iframe) == StreamInfoRecord(sinf, iframe, Bandwidth(Get(sinf, "BANDWIDTH")))

\* ------------------------------------------------------------------------
\* Reference resolution.
SchemeEnd(u, e) ==
    IF e > 1 /\ e <= Len(u) /\ Char(u, e) = ":" /\ Char(u, 1) \in UpperLetters \cup LowerLetters
    THEN SubSeq(u, 1, e - 1) ELSE ""

\* urlparse(uri).scheme: the characters before the first ":" when they start
\* with a letter and are all scheme characters, else "".
Scheme(u) == SchemeEnd(u, RunEnd(u, 1, UpperLetters \cup LowerLetters \cup Digits \cup {"+", "-", "."}))

\* Position of the last "/" of s at or before position i, 0 if there is none.
RECURSIVE LastSlash(_, _)
LastSlash(s, i) == IF i = 0 THEN 0 ELSE IF Char(s, i) = "/" THEN i ELSE LastSlash(s, i - 1)

JoinPath(base, ref, hostEnd, slash) ==
    IF Char(ref, 1) = "/" THEN SubSeq(base, 1, hostEnd - 1) \o ref
    ELSE IF slash >= hostEnd THEN SubSeq(base, 1, slash) \o ref
    ELSE base \o "/" \o ref

\* urljoin(base, ref) for a base of the form scheme://host/path and a
\* non-empty reference without scheme, query or dot segments: an
\* absolute-path reference replaces the path of the base, a relative-path
\* reference replaces its last segment.
urljoin(base, ref) ==
    JoinPath(base, ref, RunEndNot(base, Len(Scheme(base)) + 4, {"/"}), LastSlash(base, Len(base)))

\* A resolver that never joins.
uriIgnoresBase(self, u) == u

\* M3U8Parser.uri; self.m3u8.uri is an Optional[str].
uri(self, u) ==
    IF u # "" /\ Scheme(u) # "" THEN u
    ELSE IF u # "" /\ Truthy(self.m3u8.uri) THEN urljoin(self.m3u8.uri[1], u)
    ELSE u

\* "self.uri(uri) if uri else None" for an Optional[str].
OptionalUri(self, u) == IF Truthy(u) THEN Some(uri(self, u[1])) ELSE None

\* ------------------------------------------------------------------------
\* The Document (class M3U8) and the parser object (class M3U8Parser).

\* M3U8.__init__
M3U8(base_uri) ==
    [uri |-> base_uri,
     is_endlist |-> FALSE, is_master |-> FALSE,
     allow_cache |-> None, discontinuity_sequence |-> None, iframes_only |-> None,
     media_sequence |-> None, playlist_type |-> None, targetduration |-> None,
     start |-> None, version |-> None,
     media |-> <<>>, playlists |-> <<>>, dateranges |-> <<>>, segments |-> <<>>]

\* M3U8Parser.__init__
M3U8Parser(base_uri) ==
    [m3u8 |-> M3U8(base_uri),
     expect_playlist |-> FALSE, streaminf |-> None,
     expect_segment |-> FALSE, extinf |-> None, byterange |-> None,
     discontinuity |-> FALSE, map |-> None, key |-> None, date |-> None]

\* What a handler leaves behind: the parser object, and whether an exception
\* left the handler.
Ok(self) == [self |-> self, raised |-> FALSE]

Raise(self) == [self |-> self, raised |-> TRUE]

\* The result of a handler that stores int(value) or float(value), given
\* n = the converted value, None when the conversion raised ValueError.
StoreNumber(self, field, n) ==
    IF n = None THEN Raise(self) ELSE Ok([self EXCEPT !.m3u8[field] = n])

parse_tag_ext_x_version(self, value) == StoreNumber(self, "version", py_int(value))

parse_tag_extinf(self, value) ==
    Ok([self EXCEPT !.expect_segment = TRUE, !.extinf = Some(parse_extinf(value))])

parse_tag_ext_x_byterange(self, value) ==
    Ok([self EXCEPT !.expect_segment = TRUE, !.byterange = parse_byterange(value)])

\* An EXT-X-DISCONTINUITY handler that forgets to clear self._map.
parse_tag_ext_x_discontinuity_keeps_map(self, value) ==
    Ok([self EXCEPT !.discontinuity = TRUE])

parse_tag_ext_x_discontinuity(self, value) ==
    Ok([self EXCEPT !.discontinuity = TRUE, !.map = None])

\* Key(...) of parse_tag_ext_x_key
Key(self, attr) ==
    [method |-> Get(attr, "METHOD")[1],
     uri |-> OptionalUri(self, Get(attr, "URI")),
     iv |-> parse_hex(Get(attr, "IV")),
     key_format |-> Get(attr, "KEYFORMAT"),
     key_format_versions |-> Get(attr, "KEYFORMATVERSIONS")]

KeyHandler(self, attr) ==
    IF ~Truthy(Get(attr, "METHOD")) THEN Ok(self)
    ELSE Ok([self EXCEPT !.key = Some(Key(self, attr))])

parse_tag_ext_x_key(self, value) == KeyHandler(self, parse_attributes(value))

\* Map(...) of parse_tag_ext_x_map
Map(self, attr) ==
    [uri |-> uri(self, Get(attr, "URI")[1]),
     byterange |-> parse_byterange(GetDefault(attr, "BYTERANGE", ""))]

MapHandler(self, attr) ==
    IF ~Truthy(Get(attr, "URI")) THEN Ok(self)
    ELSE Ok([self EXCEPT !.map = Some(Map(self, attr))])

parse_tag_ext_x_map(self, value) == MapHandler(self, parse_attributes(value))

parse_tag_ext_x_program_date_time(self, value) ==
    Ok([self EXCEPT !.date = parse_iso8601(Some(value))])

\* The attribute names that parse_tag_ext_x_daterange pops from the mapping.
DateRangePopped ==
    {"ID", "CLASS", "START-DATE", "END-DATE", "DURATION", "PLANNED-DURATION", "END-ON-NEXT"}

DateRange(attr, duration, planned_duration) ==
    [id |-> Get(attr, "ID"),
     classname |-> Get(attr, "CLASS"),
     start_date |-> parse_iso8601(Get(attr, "START-DATE")),
     end_date |-> parse_iso8601(Get(attr, "END-DATE")),
     duration |-> duration,
     planned_duration |-> planned_duration,
     end_on_next |-> parse_bool(GetDefault(attr, "END-ON-NEXT", "NO")),
     x |-> [k \in DOMAIN attr \ DateRangePopped |-> attr[k]]]

DateRangeAppend(self, attr, duration, planned) ==
    IF duration.raised \/ planned.raised THEN Raise(self)
    ELSE Ok([self EXCEPT !.m3u8.dateranges =
                Append(@, DateRange(attr, duration.value, planned.value))])

DateRangeHandler(self, attr) ==
    DateRangeAppend(self, attr, parse_timedelta(Get(attr, "DURATION")),
                    parse_timedelta(Get(attr, "PLANNED-DURATION")))

parse_tag_ext_x_daterange(self, value) == DateRangeHandler(self, parse_attributes(value))

parse_tag_ext_x_targetduration(self, value) == StoreNumber(self, "targetduration", py_float(value))

parse_tag_ext_x_media_sequence(self, value) == StoreNumber(self, "media_sequence", py_int(value))

parse_tag_ext_x_discontinuity_sequence(self, value) ==
    StoreNumber(self, "discontinuity_sequence", py_int(value))

parse_tag_ext_x_endlist(self, value) == Ok([self EXCEPT !.m3u8.is_endlist = TRUE])

parse_tag_ext_x_playlist_type(self, value) == Ok([self EXCEPT !.m3u8.playlist_type = Some(value)])

parse_tag_ext_x_i_frames_only(self, value) == Ok([self EXCEPT !.m3u8.iframes_only = Some(TRUE)])

\* Media(...) of parse_tag_ext_x_media
Media(self, attr) ==
    [type |-> Get(attr, "TYPE")[1],
     uri |-> OptionalUri(self, Get(attr, "URI")),
     group_id |-> Get(attr, "GROUP-ID")[1],
     language |-> Get(attr, "LANGUAGE"),
     name |-> Get(attr, "NAME")[1],
     default |-> parse_bool(GetDefault(attr, "DEFAULT", "NO")),
     autoselect |-> parse_bool(GetDefault(attr, "AUTOSELECT", "NO")),
     forced |-> parse_bool(GetDefault(attr, "FORCED", "NO")),
     characteristics |-> Get(attr, "CHARACTERISTICS")]

\* An EXT-X-MEDIA handler that does not require a NAME.
MediaHandlerForgetsName(self, attr) ==
    IF ~Truthy(Get(attr, "TYPE")) \/ ~Truthy(Get(attr, "GROUP-ID")) \/ Get(attr, "NAME") = None
    THEN Ok(self)
    ELSE Ok([self EXCEPT !.m3u8.media = Append(@, Media(self, attr))])

MediaHandler(self, attr) ==
    IF ~Truthy(Get(attr, "TYPE")) \/ ~Truthy(Get(attr, "GROUP-ID")) \/ ~Truthy(Get(attr, "NAME"))
    THEN Ok(self)
    ELSE Ok([self EXCEPT !.m3u8.media = Append(@, Media(self, attr))])

parse_tag_ext_x_media(self, value) == MediaHandler(self, parse_attributes(value))

parse_tag_ext_x_stream_inf(self, value) ==
    Ok([self EXCEPT !.expect_playlist = TRUE, !.streaminf = Some(parse_attributes(value))])

\* Playlist(...)
Playlist(u, stream_info, is_iframe) ==
    [uri |-> u, stream_info |-> stream_info, media |-> <<>>, is_iframe |-> is_iframe]

\* "self._streaminf or other": a pending mapping that is not empty, else other.
StreamInfOr(self, other) ==
    IF self.streaminf # None /\ self.streaminf[1] # EmptyAttr THEN self.streaminf[1] ELSE other

\* The end of parse_tag_ext_x_i_frame_stream_inf and of get_playlist +
\* parse_line: self._streaminf is None by now, and stream_info is the result
\* of create_stream_info.
PlaylistAppend(self, u, stream_info, is_iframe) ==
    IF stream_info.raised THEN Raise(self)
    ELSE Ok([self EXCEPT !.m3u8.playlists = Append(@, Playlist(u, stream_info.value, is_iframe))])

IFrameHandler(self, attr) ==
    IF ~Truthy(Get(attr, "URI")) THEN Ok([self EXCEPT !.streaminf = None])
    ELSE PlaylistAppend([self EXCEPT !.streaminf = None], uri(self, Get(attr, "URI")[1]),
                        create_stream_info(StreamInfOr(self, attr), TRUE), TRUE)

parse_tag_ext_x_i_frame_stream_inf(self, value) == IFrameHandler(self, parse_attributes(value))

\* EXT-X-SESSION-DATA, EXT-X-SESSION-KEY, EXT-X-INDEPENDENT-SEGMENTS: handlers
\* with an empty body.
parse_tag_noop(self, value) == Ok(self)

Start(time_offset, precise) == [time_offset |-> time_offset, precise |-> precise]

StartHandler(self, attr, time_offset) ==
    IF time_offset = None THEN Raise(self)
    ELSE Ok([self EXCEPT !.m3u8.start =
                Some(Start(time_offset[1], parse_bool(GetDefault(attr, "PRECISE", "NO"))))])

StartAttr(self, attr) == StartHandler(self, attr, py_float(GetDefault(attr, "TIME-OFFSET", "0")))

parse_tag_ext_x_start(self, value) == StartAttr(self, parse_attributes(value))

parse_tag_ext_x_allow_cache(self, value) ==
    Ok([self EXCEPT !.m3u8.allow_cache = Some(parse_bool(value))])

\* M3U8Parser._TAGS as M3U8ParserMeta builds it: the tag name given to each
\* @parse_tag decorator, mapped to the name of the decorated handler.
TAGS ==
    ("EXT-X-VERSION" :> "parse_tag_ext_x_version") @@
    ("EXTINF" :> "parse_tag_extinf") @@
    ("EXT-X-BYTERANGE" :> "parse_tag_ext_x_byterange") @@
    ("EXT-X-DISCONTINUITY" :> "parse_tag_ext_x_discontinuity") @@
    ("EXT-X-KEY" :> "parse_tag_ext_x_key") @@
    ("EXT-X-MAP" :> "parse_tag_ext_x_map") @@
    ("EXT-X-PROGRAM-DATE-TIME" :> "parse_tag_ext_x_program_date_time") @@
    ("EXT-X-DATERANGE" :> "parse_tag_ext_x_daterange") @@
    ("EXT-X-TARGETDURATION" :> "parse_tag_ext_x_targetduration") @@
    ("EXT-X-MEDIA-SEQUENCE" :> "parse_tag_ext_x_media_sequence") @@
    ("EXT-X-DISCONTINUTY-SEQUENCE" :> "parse_tag_ext_x_discontinuity_sequence") @@
    ("EXT-X-ENDLIST" :> "parse_tag_ext_x_endlist") @@
    ("EXT-X-PLAYLIST-TYPE" :> "parse_tag_ext_x_playlist_type") @@
    ("EXT-X-I-FRAMES-ONLY" :> "parse_tag_ext_x_i_frames_only") @@
    ("EXT-X-MEDIA" :> "parse_tag_ext_x_media") @@
    ("EXT-X-STREAM-INF" :> "parse_tag_ext_x_stream_inf") @@
    ("EXT-X-I-FRAME-STREAM-INF" :> "parse_tag_ext_x_i_frame_stream_inf") @@
    ("EXT-X-SESSION-DATA" :> "parse_tag_ext_x_session_data") @@
    ("EXT-X-SESSION-KEY" :> "parse_tag_ext_x_session_key") @@
    ("EXT-X-INDEPENDENT-SEGMENTS" :> "parse_tag_ext_x_independent_segments") @@
    ("EXT-X-START" :> "parse_tag_ext_x_start") @@
    ("EXT-X-ALLOW-CACHE" :> "parse_tag_ext_x_allow_cache")

\* self._TAGS[tag](self, value)
Dispatch(handler, self, value) ==
    CASE handler = "parse_tag_ext_x_version" -> parse_tag_ext_x_version(self, value)
      [] handler = "parse_tag_extinf" -> parse_tag_extinf(self, value)
      [] handler = "parse_tag_ext_x_byterange" -> parse_tag_ext_x_byterange(self, value)
      [] handler = "parse_tag_ext_x_discontinuity" -> parse_tag_ext_x_discontinuity(self, value)
      [] handler = "parse_tag_ext_x_key" -> parse_tag_ext_x_key(self, value)
      [] handler = "parse_tag_ext_x_map" -> parse_tag_ext_x_map(self, value)
      [] handler = "parse_tag_ext_x_program_date_time" -> parse_tag_ext_x_program_date_time(self, value)
      [] handler = "parse_tag_ext_x_daterange" -> parse_tag_ext_x_daterange(self, value)
      [] handler = "parse_tag_ext_x_targetduration" -> parse_tag_ext_x_targetduration(self, value)
      [] handler = "parse_tag_ext_x_media_sequence" -> parse_tag_ext_x_media_sequence(self, value)
      [] handler = "parse_tag_ext_x_discontinuity_sequence" ->
            parse_tag_ext_x_discontinuity_sequence(self, value)
      [] handler = "parse_tag_ext_x_endlist" -> parse_tag_ext_x_endlist(self, value)
      [] handler = "parse_tag_ext_x_playlist_type" -> parse_tag_ext_x_playlist_type(self, value)
      [] handler = "parse_tag_ext_x_i_frames_only" -> parse_tag_ext_x_i_frames_only(self, value)
      [] handler = "parse_tag_ext_x_media" -> parse_tag_ext_x_media(self, value)
      [] handler = "parse_tag_ext_x_stream_inf" -> parse_tag_ext_x_stream_inf(self, value)
      [] handler = "parse_tag_ext_x_i_frame_stream_inf" ->
            parse_tag_ext_x_i_frame_stream_inf(self, value)
      [] handler = "parse_tag_ext_x_start" -> parse_tag_ext_x_start(self, value)
      [] handler = "parse_tag_ext_x_allow_cache" -> parse_tag_ext_x_allow_cache(self, value)
      [] OTHER -> parse_tag_noop(self, value)

\* Segment(...) of get_segment; "self._extinf or ExtInf(0, None)" is e.
Segment(self, u, e) ==
    [uri |-> u, duration |-> e.duration, title |-> e.title, key |-> self.key,
     discontinuity |-> self.discontinuity, byterange |-> self.byterange,
     date |-> self.date, map |-> self.map]

\* get_segment: the Segment built from the pending fields.
get_segment(self, u) ==
    Segment(self, u, IF self.extinf # None THEN self.extinf[1] ELSE ExtInf(FloatZero, None))

\* A get_segment that forgets to reset self._byterange.
AfterSegmentKeepsByteRange(self) ==
    [self EXCEPT !.extinf = None, !.discontinuity = FALSE, !.date = None]

\* A get_segment that also resets self._key and self._map.
AfterSegmentClearsKeyAndMap(self) ==
    [self EXCEPT !.extinf = None, !.discontinuity = FALSE, !.byterange = None, !.date = None,
                 !.key = None, !.map = None]

\* The parser object after get_segment: the per-segment fields are cleared.
AfterSegment(self) ==
    [self EXCEPT !.extinf = None, !.discontinuity = FALSE, !.byterange = None, !.date = None]

\* get_playlist and the append of parse_line; "self._streaminf or {}".
get_playlist(self, u) ==
    PlaylistAppend([self EXCEPT !.streaminf = None], u,
                   create_stream_info(StreamInfOr(self, EmptyAttr), FALSE), FALSE)

\* A parse_line that tests "not value" instead of "value is None".
TagLineIgnoresEmptyValue(self, tv) ==
    IF ~Truthy(tv[1]) \/ ~Truthy(tv[2]) \/ tv[1][1] \notin DOMAIN TAGS THEN Ok(self)
    ELSE Dispatch(TAGS[tv[1][1]], self, tv[2][1])

\* A parse_line that gives up the expected segment on an unknown tag.
TagLineUnknownCancels(self, tv) ==
    IF ~Truthy(tv[1]) \/ tv[2] = None \/ tv[1][1] \notin DOMAIN TAGS
    THEN Ok([self EXCEPT !.expect_segment = FALSE])
    ELSE Dispatch(TAGS[tv[1][1]], self, tv[2][1])

\* The branch of parse_line for a line that starts with "#", tv = split_tag(line).
TagLine(self, tv) ==
    IF ~Truthy(tv[1]) \/ tv[2] = None \/ tv[1][1] \notin DOMAIN TAGS THEN Ok(self)
    ELSE Dispatch(TAGS[tv[1][1]], self, tv[2][1])

\* A parse_line that leaves the segment expectation set after a segment.
SegmentLineKeepsExpecting(self, line) ==
    Ok([AfterSegment(self) EXCEPT !.m3u8.segments = Append(@, get_segment(self, uri(self, line)))])

\* The branch of parse_line for an expected segment URI.
SegmentLine(self, line) ==
    Ok([AfterSegment(self) EXCEPT !.expect_segment = FALSE,
                                  !.m3u8.segments = Append(@, get_segment(self, uri(self, line)))])

\* The branch of parse_line for an expected playlist URI.
PlaylistLine(self, line) == get_playlist([self EXCEPT !.expect_playlist = FALSE], uri(self, line))

\* parse_line
parse_line(self, line) ==
    IF StartsWith(line, "#") THEN TagLine(self, split_tag(line))
    ELSE IF self.expect_segment THEN SegmentLine(self, line)
    ELSE IF self.expect_playlist THEN PlaylistLine(self, line)
    ELSE Ok(self)

\* The association loop of parse() for one playlist: for each media_type of
\* kinds, in order, every media entry whose group_id is the playlist's
\* reference of that kind (getattr(stream_info, media_type, None)) is appended.
GroupRef(stream_info, media_type) ==
    IF media_type \in DOMAIN stream_info THEN stream_info[media_type] ELSE None

\* A filter that stops at the first entry of the group.
FilterGroupFirstOnly(media, group_id) ==
    LET hits == {i \in DOMAIN media : media[i].group_id = group_id}
    IN  IF hits = {} THEN <<>> ELSE <<media[CHOOSE i \in hits : \A j \in hits : i <= j]>>

RECURSIVE FilterGroup(_, _)
FilterGroup(media, group_id) ==
    IF media = <<>> THEN <<>>
    ELSE (IF Head(media).group_id = group_id THEN <<Head(media)>> ELSE <<>>)
         \o FilterGroup(Tail(media), group_id)

AssociateKind(playlist, media, group_id) ==
    IF Truthy(group_id) THEN [playlist EXCEPT !.media = @ \o FilterGroup(media, group_id[1])]
    ELSE playlist

RECURSIVE AssociateKinds(_, _, _)
AssociateKinds(playlist, kinds, media) ==
    IF kinds = <<>> THEN playlist
    ELSE AssociateKinds(AssociateKind(playlist, media, GroupRef(playlist.stream_info, Head(kinds))),
                        Tail(kinds), media)

Associate(m3u8) ==
    [m3u8 EXCEPT !.playlists =
        [i \in DOMAIN @ |-> AssociateKinds(@[i], <<"audio", "video", "subtitles">>, m3u8.media)]]

\* An is_master that is computed from the segment list instead.
SetIsMasterFromSegments(m3u8) == [m3u8 EXCEPT !.is_master = (m3u8.segments = <<>>)]

\* self.m3u8.is_master = not not self.m3u8.playlists
SetIsMaster(m3u8) == [m3u8 EXCEPT !.is_master = (m3u8.playlists # <<>>)]

\* ------------------------------------------------------------------------
\* datetime and timedelta arithmetic of M3U8.is_date_in_daterange.
IsLeap(year) == year % 4 = 0 /\ (year % 100 # 0 \/ year % 400 = 0)

DaysInMonth(year, month) ==
    IF month = 2 THEN (IF IsLeap(year) THEN 29 ELSE 28)
    ELSE IF month \in {4, 6, 9, 11} THEN 30 ELSE 31

NextDay(dt) ==
    IF dt.day < DaysInMonth(dt.year, dt.month) THEN [dt EXCEPT !.day = @ + 1]
    ELSE IF dt.month < 12 THEN [dt EXCEPT !.day = 1, !.month = @ + 1]
    ELSE [dt EXCEPT !.day = 1, !.month = 1, !.year = @ + 1]

PrevMonthEnd(year, month) ==
    IF month > 1 THEN [year |-> year, month |-> month - 1, day |-> DaysInMonth(year, month - 1)]
    ELSE [year |-> year - 1, month |-> 12, day |-> 31]

SetDate(dt, d) == [dt EXCEPT !.year = d.year, !.month = d.month, !.day = d.day]

PrevDay(dt) ==
    IF dt.day > 1 THEN [dt EXCEPT !.day = @ - 1]
    ELSE SetDate(dt, PrevMonthEnd(dt.year, dt.month))

RECURSIVE AddDays(_, _)
AddDays(dt, n) ==
    IF n = 0 THEN dt
    ELSE IF n > 0 THEN AddDays(NextDay(dt), n - 1)
    ELSE AddDays(PrevDay(dt), n + 1)

\* The datetime on the day of dt at sod seconds of the day (carried into the
\* date when outside 0..86399) and microsecond.
AtSecondOfDay(dt, sod, microsecond) ==
    AddDays([year |-> dt.year, month |-> dt.month, day |-> dt.day,
             hour |-> (sod % 86400) \div 3600,
             minute |-> (sod % 3600) \div 60,
             second |-> sod % 60,
             microsecond |-> microsecond],
            sod \div 86400)

\* timedelta(seconds=float) as whole seconds and microseconds 0..999999.
WholeSeconds(td) == td.seconds.num \div Pow10(td.seconds.exp)

Microseconds(td) == (td.seconds.num % Pow10(td.seconds.exp)) * Pow10(6 - td.seconds.exp)

\* datetime + timedelta
DateTimePlus(dt, td) ==
    AtSecondOfDay(dt, dt.hour * 3600 + dt.minute * 60 + dt.second + WholeSeconds(td),
                  Microseconds(td))

\* The fields that order two datetimes.
DateTimeKey(dt) ==
    <<dt.year, dt.month, dt.day, dt.hour, dt.minute, dt.second,
      IF "microsecond" \in DOMAIN dt THEN dt.microsecond ELSE 0>>

RECURSIVE KeyLess(_, _, _)
KeyLess(a, b, i) ==
    IF i > Len(a) THEN FALSE
    ELSE IF a[i] # b[i] THEN a[i] < b[i]
    ELSE KeyLess(a, b, i + 1)

\* a < b and a <= b of two datetimes
DateTimeLess(a, b) == KeyLess(DateTimeKey(a), DateTimeKey(b), 1)

DateTimeLessEq(a, b) == ~DateTimeLess(b, a)

\* start <= date < end
Between(start, date, end) == DateTimeLessEq(start, date) /\ DateTimeLess(date, end)

\* bool(timedelta): a zero timedelta is false.
TimeDeltaTruthy(td) == td # None /\ td[1].seconds.num # 0

\* daterange.duration or daterange.planned_duration
DurationOr(duration, planned_duration) ==
    IF TimeDeltaTruthy(duration) THEN duration ELSE planned_duration

\* The last two returns of is_date_in_daterange, duration as the "or" gave it.
InRangeFor(date, start, duration) ==
    IF duration # None THEN Some(Between(start, date, DateTimePlus(start, duration[1])))
    ELSE Some(DateTimeLessEq(start, date))

\* M3U8.is_date_in_daterange: None (unknown), Some(TRUE) or Some(FALSE).
is_date_in_daterange(date, daterange) ==
    IF date = None \/ daterange.start_date = None THEN None
    ELSE IF daterange.end_date # None
    THEN Some(Between(daterange.start_date[1], date[1], daterange.end_date[1]))
    ELSE InRangeFor(date[1], daterange.start_date[1],
                    DurationOr(daterange.duration, daterange.planned_duration))

\* ------------------------------------------------------------------------
\* The state machine of one parse() call.
VARIABLES
    pc,        \* "start", "lines", "done" (a Document was returned),
               \* "header_error" (ValueError: missing header), "raised" (an
               \* exception left a handler and parse())
    consumed,  \* the lines pulled from the line source so far
    parser,    \* the M3U8Parser object, with its Document parser.m3u8
    peer,      \* a second parse invocation, suspended between two of its
               \* lines: NoPeer or its [pc, consumed, parser]
    classes,   \* the parser classes defined so far: name -> [parent, _TAGS]
    dispatched,\* the handler the last parse_line through a class called
    call,      \* a call of M3U8.is_date_in_daterange: arguments and result
    dropped    \* the number of empty lines the line source has left out

vars == <<pc, consumed, parser, peer, classes, dispatched, call, dropped>>

NoPeer == <<>>

\* The handler that a class registers for a tag: the function object, named
\* by the class that defines it and the function's name.
Handler(cls, name) == [cls |-> cls, name |-> name]

\* M3U8ParserMeta.__init__ for the class name: inherited is what
\* getattr(cls, "_TAGS", {}) finds, declared the decorated members of the
\* class body (tag -> function name).  The registry is a new dict.
MetaInit(inherited, name, declared) ==
    [t \in DOMAIN inherited \cup DOMAIN declared |->
        IF t \in DOMAIN declared THEN Handler(name, declared[t]) ELSE inherited[t]]

Class(parent, declared, tags) == [parent |-> parent, declared |-> declared, _TAGS |-> tags]

\* The class M3U8Parser: nothing is inherited, and every decorated method of
\* the class body is entered under its tag.
BaseClass == "M3U8Parser"

BaseRegistry == MetaInit(<<>>, BaseClass, TAGS)

BaseClasses == BaseClass :> Class(None, TAGS, BaseRegistry)

\* A metaclass that enters the members into the inherited dict itself.
DefineClassInPlace(cls_table, name, parent, declared) ==
    [cls_table EXCEPT ![parent]._TAGS = MetaInit(@, name, declared)] @@
    (name :> Class(Some(parent), declared, MetaInit(cls_table[parent]._TAGS, name, declared)))

\* class name(parent): with the decorated members declared.
DefineClass(cls_table, name, parent, declared) ==
    cls_table @@
    (name :> Class(Some(parent), declared, MetaInit(cls_table[parent]._TAGS, name, declared)))

\* parse_line of an instance of a class with registry tags, for a line that
\* starts with "#": the handler called, or None when the line is ignored.
HandlerFor(tags, tv) ==
    IF ~Truthy(tv[1]) \/ tv[2] = None \/ tv[1][1] \notin DOMAIN tags THEN None
    ELSE Some(tags[tv[1][1]])

NoDispatch == <<>>

NoCall == <<>>

\* Base locations given to the parser.
BaseUris == {None, Some("http://h/a/i.m3u8")}

Init ==
    /\ pc = "start"
    /\ consumed = <<>>
    /\ parser \in {M3U8Parser(b) : b \in BaseUris}
    /\ peer = NoPeer
    /\ classes = BaseClasses
    /\ dispatched = NoDispatch
    /\ call = NoCall
    /\ dropped = 0

\* A line source that yields the empty lines too.
KeptAlways(line) == TRUE

\* filter(bool, ...): the line source yields the non-empty lines only.
Kept(line) == line # ""

\* The line source passes over an empty line of the data, at most n of them.
DropEmpty(line, n) ==
    /\ pc \in {"start", "lines"}
    /\ ~Kept(line)
    /\ dropped < n
    /\ dropped' = dropped + 1
    /\ UNCHANGED <<pc, consumed, parser, peer, classes, dispatched, call>>

\* next(lines) raises StopIteration: the Document is returned as constructed.
ParseEmpty ==
    /\ pc = "start"
    /\ pc' = "done"
    /\ UNCHANGED <<consumed, parser>>

\* A header test that accepts every directive line.
StartsWithSentinel(line) == StartsWith(line, "#")

\* line.startswith("#EXTM3U")
HasHeader(line) == StartsWith(line, "#EXTM3U")

\* The first non-empty line: the header test of parse().
ParseHeader(line, n) ==
    /\ pc = "start"
    /\ Len(consumed) < n
    /\ Kept(line)
    /\ consumed' = Append(consumed, line)
    /\ pc' = IF HasHeader(line) THEN "lines" ELSE "header_error"
    /\ UNCHANGED parser

\* The effect of one parse_line call with result r.
AfterLine(r) ==
    /\ parser' = r.self
    /\ pc' = IF r.raised THEN "raised" ELSE "lines"

\* One iteration of "for line in lines: parse_line(line)".
ParseLine(line, n) ==
    /\ pc = "lines"
    /\ Len(consumed) < n
    /\ Kept(line)
    /\ consumed' = Append(consumed, line)
    /\ AfterLine(parse_line(parser, line))

\* The line source is exhausted: association pass, is_master, return.
ParseFinish ==
    /\ pc = "lines"
    /\ pc' = "done"
    /\ parser' = [parser EXCEPT !.m3u8 = SetIsMaster(Associate(parser.m3u8))]
    /\ UNCHANGED consumed

\* parse() over a line source that yields lines of the set L, at most n of them.
Parse(L, n) ==
    \/ ParseEmpty
    \/ \E line \in L : ParseHeader(line, n)
    \/ \E line \in L : ParseLine(line, n)
    \/ ParseFinish

\* A single parse invocation of the class M3U8Parser.
Step(L, n) == Parse(L, n) /\ UNCHANGED <<peer, classes, dispatched, call, dropped>>

\* ------------------------------------------------------------------------
\* Media playlists: the directives that set the per-segment pending fields.
Header == "#EXTM3U"

PendingLines ==
    {Header,
     "#EXTINF:10.5,t",
     "#EXT-X-BYTERANGE:100@5",
     "#EXT-X-DISCONTINUITY",
     "#EXT-X-PROGRAM-DATE-TIME:2020-01-02T03:04:05Z",
     "s.ts"}

MaxPendingLines == 6

NextPending == Step(PendingLines, MaxPendingLines)

SpecPending == Init /\ [][NextPending]_vars

\* ------------------------------------------------------------------------
\* Header lines and the directives that convert their value to a number.
ScalarLines ==
    {Header,
     "#EXTM3U8",
     "#EXT-X-VERSION:3",
     "#EXT-X-VERSION:abc",
     "#EXT-X-TARGETDURATION:abc",
     "#EXT-X-MEDIA-SEQUENCE:abc",
     "#EXT-X-START:TIME-OFFSET=abc",
     "#EXT-X-DATERANGE:ID=\"a\",DURATION=abc",
     "#EXT-X-STREAM-INF:BANDWIDTH=abc",
     "#EXT-X-ENDLIST",
     "v.m3u8"}

MaxScalarLines == 4

NextScalar == Step(ScalarLines, MaxScalarLines)

SpecScalar == Init /\ [][NextScalar]_vars

\* ------------------------------------------------------------------------
\* Media playlists with encryption keys, initialization maps and
\* discontinuities.
KeyMapLines ==
    {Header,
     "#EXT-X-KEY:METHOD=AES-128,URI=\"k1\"",
     "#EXT-X-KEY:METHOD=NONE",
     "#EXT-X-KEY:URI=\"k2\"",
     "#EXT-X-MAP:URI=\"init.mp4\"",
     "#EXT-X-DISCONTINUITY",
     "#EXTINF:4,",
     "s.ts"}

MaxKeyMapLines == 6

NextKeyMap == Step(KeyMapLines, MaxKeyMapLines)

SpecKeyMap == Init /\ [][NextKeyMap]_vars

\* ------------------------------------------------------------------------
\* Master playlists: variant directives, with and without a bandwidth, next
\* to a segment directive.
VariantLines ==
    {Header,
     "#EXT-X-STREAM-INF:BANDWIDTH=1234567",
     "#EXT-X-STREAM-INF:BANDWIDTH=0",
     "#EXT-X-STREAM-INF:RESOLUTION=640x360",
     "#EXT-X-I-FRAME-STREAM-INF:URI=\"i.m3u8\",BANDWIDTH=5000",
     "#EXT-X-I-FRAME-STREAM-INF:BANDWIDTH=5000",
     "#EXTINF:4,",
     "v.m3u8"}

MaxVariantLines == 5

NextVariant == Step(VariantLines, MaxVariantLines)

SpecVariant == Init /\ [][NextVariant]_vars

\* ------------------------------------------------------------------------
\* Master playlists: alternative media and the variants that reference their
\* groups.
MasterLines ==
    {Header,
     "#EXT-X-MEDIA:TYPE=AUDIO,GROUP-ID=\"aac\",NAME=\"a\"",
     "#EXT-X-MEDIA:TYPE=AUDIO,GROUP-ID=\"aac\",NAME=\"b\"",
     "#EXT-X-MEDIA:TYPE=AUDIO,GROUP-ID=\"mp3\",NAME=\"c\"",
     "#EXT-X-STREAM-INF:BANDWIDTH=1000,AUDIO=\"aac\"",
     "#EXT-X-STREAM-INF:SUBTITLES=\"mp3\",VIDEO=\"aac\",AUDIO=\"aac\"",
     "#EXT-X-STREAM-INF:BANDWIDTH=1000",
     "v.m3u8"}

MaxMasterLines == 6

NextMaster == Step(MasterLines, MaxMasterLines)

SpecMaster == Init /\ [][NextMaster]_vars

\* ------------------------------------------------------------------------
\* Master playlists of I-frame variants, one per bandwidth value.
MaxBandwidth == 300

\* Every bandwidth up to MaxBandwidth, and larger values around the places
\* where rounding changes the number of digits or meets an exact half.
BandwidthValues ==
    (1..MaxBandwidth) \cup
    {985, 994, 995, 996, 1005, 1249, 1250, 1251, 1350, 9949, 9950, 9951,
     99500, 1234567, 125000000, 995000000}

BandwidthLine(b) == "#EXT-X-I-FRAME-STREAM-INF:URI=\"i.m3u8\",BANDWIDTH=" \o ToString(b)

BandwidthLines == {Header} \cup {BandwidthLine(b) : b \in BandwidthValues}

MaxBandwidthLines == 2

NextBandwidth == Step(BandwidthLines, MaxBandwidthLines)

SpecBandwidth == Init /\ [][NextBandwidth]_vars

\* ------------------------------------------------------------------------
\* EXT-X-STREAM-INF directives whose attribute list is built from entries:
\* raw is the text of the entry, ok tells whether it is a KEY=VALUE entry of
\* the grammar, and key and value are then what it declares.
AttrEntries ==
    {[raw |-> "A=1", ok |-> TRUE, key |-> "A", value |-> "1"],
     [raw |-> "A=\"a,b\"", ok |-> TRUE, key |-> "A", value |-> "a,b"],
     [raw |-> "B=640x360", ok |-> TRUE, key |-> "B", value |-> "640x360"],
     [raw |-> "C=x-y ", ok |-> TRUE, key |-> "C", value |-> "x-y"],
     [raw |-> "a=1", ok |-> FALSE, key |-> "", value |-> ""],
     [raw |-> "B=\"a", ok |-> FALSE, key |-> "", value |-> ""],
     [raw |-> "D", ok |-> FALSE, key |-> "", value |-> ""]}

MaxAttrEntries == 2

AttrEntryLists == UNION {[1..n -> AttrEntries] : n \in 1..MaxAttrEntries}

\* The entries of es joined by commas.
RECURSIVE JoinEntries(_)
JoinEntries(es) ==
    IF Len(es) = 1 THEN es[1].raw ELSE es[1].raw \o "," \o JoinEntries(Tail(es))

AttrLine(es) == "#EXT-X-STREAM-INF:" \o JoinEntries(es)

AttrLines == {Header} \cup {AttrLine(es) : es \in AttrEntryLists}

MaxAttrLines == 2

NextAttr == Step(AttrLines, MaxAttrLines)

SpecAttr == Init /\ [][NextAttr]_vars

\* ------------------------------------------------------------------------
\* Directives without a value, lines that name no registered tag, and content
\* lines, next to directives that set pending state.
BareLines ==
    {Header,
     "#EXT-X-ENDLIST",
     "#EXT-X-DISCONTINUITY",
     "#EXT-X-I-FRAMES-ONLY",
     "#EXT-X-FOO:1",
     "# comment",
     "#EXT-X-MAP:URI=\"m\"",
     "#EXTINF:4,",
     "#EXT-X-STREAM-INF:BANDWIDTH=1000",
     "s.ts"}

MaxBareLines == 5

NextBare == Step(BareLines, MaxBareLines)

SpecBare == Init /\ [][NextBare]_vars

\* ------------------------------------------------------------------------
\* EXT-X-MEDIA directives with and without the required attributes, next to
\* a directive that sets pending state.
CompleteMedia ==
    ("#EXT-X-MEDIA:TYPE=AUDIO,GROUP-ID=\"g\",NAME=\"n\",URI=\"a.m3u8\",DEFAULT=YES"
        :> [type |-> "AUDIO", group_id |-> "g", name |-> "n"]) @@
    ("#EXT-X-MEDIA:TYPE=SUBTITLES,GROUP-ID=\"s\",NAME=\"m\""
        :> [type |-> "SUBTITLES", group_id |-> "s", name |-> "m"])

IncompleteMedia ==
    {"#EXT-X-MEDIA:GROUP-ID=\"g\",NAME=\"n\"",
     "#EXT-X-MEDIA:TYPE=AUDIO,NAME=\"n\"",
     "#EXT-X-MEDIA:TYPE=AUDIO,GROUP-ID=\"g\",NAME=\"\"",
     "#EXT-X-MEDIA:TYPE=AUDIO,GROUP-ID=\"g\",NAME=\"n\",bad"}

MediaLines == {Header, "#EXTINF:4,", "s.ts"} \cup DOMAIN CompleteMedia \cup IncompleteMedia

MaxMediaLines == 5

NextMedia == Step(MediaLines, MaxMediaLines)

SpecMedia == Init /\ [][NextMedia]_vars

\* ------------------------------------------------------------------------
\* Segment lines that are relative-path, absolute-path and absolute
\* references; the last one is what the first resolves to.
UriLines ==
    {Header,
     "#EXTINF:4,",
     "seg1.ts",
     "sub/seg.ts",
     "/x/seg.ts",
     "http://other/x.ts",
     "http://h/a/seg1.ts"}

MaxUriLines == 5

NextUri == Step(UriLines, MaxUriLines)

SpecUri == Init /\ [][NextUri]_vars

\* ------------------------------------------------------------------------
\* Media playlists with sequence counters.
SequenceLines ==
    {Header,
     "#EXT-X-MEDIA-SEQUENCE:3",
     "#EXT-X-DISCONTINUITY-SEQUENCE:5",
     "#EXT-X-DISCONTINUITY-SEQUENCE:7",
     "#EXTINF:4,",
     "s.ts"}

MaxSequenceLines == 4

NextSequence == Step(SequenceLines, MaxSequenceLines)

SpecSequence == Init /\ [][NextSequence]_vars

\* ------------------------------------------------------------------------
\* Calls of M3U8.is_date_in_daterange.  Instants are named by their offset in
\* seconds from the start date 2020-02-28T23:59:55.
DateAt ==
    (0 - 1 :> "2020-02-28T23:59:54") @@
    (0 :> "2020-02-28T23:59:55") @@
    (4 :> "2020-02-28T23:59:59") @@
    (5 :> "2020-02-29T00:00:00") @@
    (10 :> "2020-02-29T00:00:05") @@
    (15 :> "2020-02-29T00:00:10") @@
    (20 :> "2020-02-29T00:00:15") @@
    (86405 :> "2020-03-01T00:00:00")

Dates == {None} \cup {Some(DateAt[o]) : o \in DOMAIN DateAt}

StartDates == {None, Some(DateAt[0])}

EndDates == {None, Some(DateAt[0]), Some(DateAt[10])}

Durations == {None, Some("0"), Some("0.5"), Some("10"), Some("86410")}

PlannedDurations == {None, Some("0"), Some("20")}

\* The attribute list of an EXT-X-DATERANGE directive with these values.
Optional(key, opt) == IF opt = None THEN <<>> ELSE key :> opt[1]

DateRangeAttr(start, end, duration, planned) ==
    ("ID" :> "a") @@ Optional("START-DATE", start) @@ Optional("END-DATE", end)
        @@ Optional("DURATION", duration) @@ Optional("PLANNED-DURATION", planned)

DateRangeOf(attr) ==
    DateRange(attr, parse_timedelta(Get(attr, "DURATION")).value,
              parse_timedelta(Get(attr, "PLANNED-DURATION")).value)

\* One call M3U8.is_date_in_daterange(date, daterange), with a Segment's
\* date and a DateRange as the directives give them.
IsDateInDaterange(date, daterange) ==
    /\ call' = [date |-> date, daterange |-> daterange,
                result |-> is_date_in_daterange(date, daterange)]
    /\ UNCHANGED <<pc, consumed, parser, peer, classes, dispatched, dropped>>

\* The Segment dates and the DateRanges that the directives give.
SegmentDates == {parse_iso8601(d) : d \in Dates}

DateRanges ==
    {DateRangeOf(DateRangeAttr(s, e, du, pl)) :
        s \in StartDates, e \in EndDates, du \in Durations, pl \in PlannedDurations}

NextDateRange == \E date \in SegmentDates, daterange \in DateRanges : IsDateInDaterange(date, daterange)

SpecDateRange == Init /\ [][NextDateRange]_vars

\* ------------------------------------------------------------------------
\* Parser subclasses: class definitions and parses through each class.
SubclassNames == {"A", "B"}

\* The decorated members of a subclass body: none, an override of a tag of
\* M3U8Parser, a vendor tag, both.
Declarations ==
    {<<>>,
     "EXT-X-VERSION" :> "parse_tag_ext_x_version",
     "EXT-X-VENDOR" :> "parse_tag_ext_x_vendor",
     ("EXT-X-VERSION" :> "parse_tag_ext_x_version") @@ ("EXT-X-VENDOR" :> "parse_tag_ext_x_vendor")}

RegistryLines == {"#EXT-X-VERSION:3", "#EXT-X-VENDOR:1", "#EXT-X-ENDLIST", "#EXT-X-FOO:1"}

DefineSubclass(name, parent, declared) ==
    /\ name \notin DOMAIN classes
    /\ classes' = DefineClass(classes, name, parent, declared)
    /\ UNCHANGED <<pc, consumed, parser, peer, dispatched, call, dropped>>

\* load(data, parser=cls): parse_line of an instance of cls on a directive
\* line; self._TAGS is the registry of cls.
ParseLineThrough(cls, line) ==
    /\ dispatched' = [cls |-> cls, line |-> line,
                      handler |-> HandlerFor(classes[cls]._TAGS, split_tag(line))]
    /\ UNCHANGED <<pc, consumed, parser, peer, classes, call, dropped>>

NextRegistry ==
    \/ \E name \in SubclassNames, parent \in DOMAIN classes, declared \in Declarations :
          DefineSubclass(name, parent, declared)
    \/ \E cls \in DOMAIN classes, line \in RegistryLines : ParseLineThrough(cls, line)

SpecRegistry == Init /\ [][NextRegistry]_vars

\* ------------------------------------------------------------------------
\* Two parse invocations, interleaved line by line.

\* A context in which the Document's segment list is one object of the class.
ResumeWithSharedSegments(own, other) == [own EXCEPT !.m3u8.segments = other.m3u8.segments]

\* The parser a context finds when it resumes, other being the parser of the
\* context that ran meanwhile: every attribute of the parser and of its
\* Document is bound on the instance by __init__, the class holds none.
Resume(own, other) == own

\* A second load(): its own M3U8Parser and, inside it, its own M3U8.
Spawn(base_uri) ==
    /\ peer = NoPeer
    /\ peer' = [pc |-> "start", consumed |-> <<>>, parser |-> M3U8Parser(base_uri)]
    /\ UNCHANGED <<pc, consumed, parser, classes, dispatched, call, dropped>>

\* The running invocation is suspended between two lines and the other resumes.
Switch ==
    /\ peer # NoPeer
    /\ peer' = [pc |-> pc, consumed |-> consumed, parser |-> parser]
    /\ pc' = peer.pc
    /\ consumed' = peer.consumed
    /\ parser' = Resume(peer.parser, parser)
    /\ UNCHANGED <<classes, dispatched, call, dropped>>

ConcurrentLines ==
    {Header,
     "#EXTINF:4,",
     "#EXT-X-STREAM-INF:BANDWIDTH=1000",
     "#EXT-X-KEY:METHOD=NONE",
     "s.ts"}

MaxConcurrentLines == 3

NextConcurrent ==
    \/ Step(ConcurrentLines, MaxConcurrentLines)
    \/ \E base_uri \in BaseUris : Spawn(base_uri)
    \/ Switch

SpecConcurrent == Init /\ [][NextConcurrent]_vars

\* ------------------------------------------------------------------------
\* Playlists whose directives append to each of the four Document lists.
GrowthLines ==
    {Header,
     "#EXTINF:4,",
     "#EXT-X-BYTERANGE:10@0",
     "#EXT-X-STREAM-INF:BANDWIDTH=1000",
     "#EXT-X-I-FRAME-STREAM-INF:URI=\"i.m3u8\",BANDWIDTH=1000",
     "#EXT-X-MEDIA:TYPE=AUDIO,GROUP-ID=\"a\",NAME=\"n\"",
     "#EXT-X-DATERANGE:ID=\"a\"",
     "s.ts"}

MaxGrowthLines == 5

NextGrowth == Step(GrowthLines, MaxGrowthLines)

SpecGrowth == Init /\ [][NextGrowth]_vars

\* ------------------------------------------------------------------------
\* Data with empty lines, before, between and instead of the other lines.
EmptyLines ==
    {"",
     Header,
     "#EXT-X-ENDLIST",
     "#EXTINF:4,",
     "s.ts"}

MaxEmptyLines == 3

MaxDropped == 2

NextEmpty ==
    \/ Step(EmptyLines, MaxEmptyLines)
    \/ \E line \in EmptyLines : DropEmpty(line, MaxDropped)

SpecEmpty == Init /\ [][NextEmpty]_vars

\* ------------------------------------------------------------------------
\* The consumed lines read as a document: what each line is, and which
\* lines became Segments.  consumed[1] is the header line.
segments == parser.m3u8.segments

playlists == parser.m3u8.playlists

\* The tag a directive line names ("" for any other line) and its value.
LineTag(l) == IF StartsWith(l, "#") /\ Truthy(split_tag(l)[1]) THEN split_tag(l)[1][1] ELSE ""

LineValue(l) == split_tag(l)[2][1]

\* Every line a line source above can yield, with its tag, its value and the
\* attribute list decoded from its value.
AllLines ==
    PendingLines \cup ScalarLines \cup KeyMapLines \cup VariantLines \cup MasterLines \cup BareLines \cup ConcurrentLines \cup GrowthLines
        \cup UriLines \cup SequenceLines

TagOf == [l \in AllLines |-> LineTag(l)]

ValueOf == [l \in AllLines |-> IF LineTag(l) = "" THEN "" ELSE LineValue(l)]

AttrOf == [l \in AllLines |-> parse_attributes(ValueOf[l])]

Tagged(i, tags) == TagOf[consumed[i]] \in tags

\* A content (URI) line after the header.
ContentAt(i) == i >= 2 /\ consumed[i] # "" /\ ~StartsWith(consumed[i], "#")

\* The content line i follows an EXTINF or EXT-X-BYTERANGE directive with no
\* other content line in between.
SegmentAt(i) ==
    /\ ContentAt(i)
    /\ \E d \in 2..(i - 1) :
          /\ Tagged(d, {"EXTINF", "EXT-X-BYTERANGE"})
          /\ \A j \in (d + 1)..(i - 1) : ~ContentAt(j)

SegmentPositions == {i \in 2..Len(consumed) : SegmentAt(i)}

\* The lines that became Segments, in order: SegSeq[k] is the line of the
\* k-th Segment.
SegSeq ==
    LET P == SegmentPositions
    IN  [k \in 1..Cardinality(P) |-> CHOOSE i \in P : Cardinality({j \in P : j <= i}) = k]

\* The line before the window of the k-th Segment of pos: the line of the
\* previous Segment, or the header.
PrevSegPos(pos, k) == IF k = 1 THEN 1 ELSE pos[k - 1]

\* The last line strictly between lo and hi that names one of tags, 0 if none.
LastTagged(lo, hi, tags) ==
    LET D == {d \in (lo + 1)..(hi - 1) : Tagged(d, tags)}
    IN  IF D = {} THEN 0 ELSE CHOOSE d \in D : \A e \in D : e <= d

\* C2: per-segment pending fields do not leak across segments.  Every Segment
\* carries the duration/title, byte range and date of the last EXTINF,
\* EXT-X-BYTERANGE and EXT-X-PROGRAM-DATE-TIME directive declared since the
\* previous Segment, its discontinuity flag is set iff an EXT-X-DISCONTINUITY
\* was declared since the previous Segment, and a field whose directive was
\* not declared since the previous Segment is absent/default (duration 0, no
\* title, no byte range, no date, discontinuity false).
C2_PendingFieldsDoNotLeak ==
    LET pos == SegSeq
    IN
    /\ Len(segments) = Len(pos)
    /\ \A k \in 1..Len(segments) :
          LET last(tag) == LastTagged(PrevSegPos(pos, k), pos[k], {tag})
              value(tag) == ValueOf[consumed[last(tag)]]
          IN  /\ segments[k].duration =
                    IF last("EXTINF") = 0 THEN FloatZero ELSE parse_extinf(value("EXTINF")).duration
              /\ segments[k].title =
                    IF last("EXTINF") = 0 THEN None ELSE parse_extinf(value("EXTINF")).title
              /\ segments[k].byterange =
                    IF last("EXT-X-BYTERANGE") = 0 THEN None
                    ELSE parse_byterange(value("EXT-X-BYTERANGE"))
              /\ segments[k].discontinuity = (last("EXT-X-DISCONTINUITY") # 0)
              /\ segments[k].date =
                    IF last("EXT-X-PROGRAM-DATE-TIME") = 0 THEN None
                    ELSE parse_iso8601(Some(value("EXT-X-PROGRAM-DATE-TIME")))

\* Two Segments: the first carries a byte range and a discontinuity, the
\* second was declared by EXTINF alone and carries neither.
C2_Witness ==
    /\ Len(segments) = 2
    /\ segments[1].byterange # None /\ segments[1].discontinuity /\ segments[1].duration = FloatZero
    /\ segments[2].byterange = None /\ ~segments[2].discontinuity
    /\ segments[2].duration # FloatZero /\ segments[2].title # None

\* Nothing was dispatched: the parser object is as constructed.
Untouched == parser = M3U8Parser(parser.m3u8.uri)

\* C1 as stated: an input whose first non-empty line is not the magic header
\* #EXTM3U fails with ValueError before any later line is dispatched, and
\* nothing was appended.
C1_NotTheHeaderIsFatal ==
    (consumed # <<>> /\ consumed[1] # Header) =>
        (pc = "header_error" /\ Len(consumed) = 1 /\ Untouched)

\* C1 amended: an input whose first non-empty line does not begin with the
\* characters #EXTM3U fails with ValueError before any later line is
\* dispatched: no Document is returned, no further line is read and the
\* segment, variant, media and date-range lists are empty.
C1_MissingHeaderPrefixIsFatal ==
    (consumed # <<>> /\ ~StartsWith(consumed[1], Header)) =>
        (pc = "header_error" /\ Len(consumed) = 1 /\ Untouched)

\* parse() failed on a first line that is a directive other than the header.
C1_Witness == pc = "header_error" /\ consumed = <<"#EXT-X-VERSION:3">>

\* C9 as stated: when the first line is the magic header, no exception leaves
\* a handler, whatever the values of the later directives.
C9_OnlyMissingHeaderIsFatal ==
    (consumed # <<>> /\ consumed[1] = Header) => pc # "raised"

\* The attribute list of directive line i.
LineAttr(i) == AttrOf[consumed[i]]

\* Line i is an EXT-X-KEY directive that carries a METHOD / an EXT-X-MAP
\* directive that carries a URI.
KeyAt(i) == Tagged(i, {"EXT-X-KEY"}) /\ Truthy(Get(LineAttr(i), "METHOD"))

MapAt(i) == Tagged(i, {"EXT-X-MAP"}) /\ Truthy(Get(LineAttr(i), "URI"))

\* The greatest element of a set of line numbers, 0 if it is empty.
Last(S) == IF S = {} THEN 0 ELSE CHOOSE d \in S : \A e \in S : e <= d

\* The key declared by the lines before line p: the Key of the most recent
\* EXT-X-KEY with a METHOD, absent if there is none.
DeclaredKey(p) ==
    LET k == Last({i \in 2..(p - 1) : KeyAt(i)})
    IN  IF k = 0 THEN None ELSE Some(Key(parser, LineAttr(k)))

\* The map declared by the lines before line p: the Map of the most recent
\* EXT-X-MAP with a URI that comes after the most recent EXT-X-DISCONTINUITY,
\* absent if there is none.
DeclaredMap(p) ==
    LET d == LastTagged(1, p, {"EXT-X-DISCONTINUITY"})
        m == Last({i \in (d + 1)..(p - 1) : MapAt(i)})
    IN  IF m = 0 THEN None ELSE Some(Map(parser, LineAttr(m)))

\* C3: EXT-X-DISCONTINUITY clears the active map but not the active key.
\* When an EXT-X-MAP with a URI and an EXT-X-KEY with a METHOD are followed
\* by an EXT-X-DISCONTINUITY at line d and then by a Segment, with no
\* EXT-X-MAP or EXT-X-KEY between d and the Segment's line, the Segment has
\* no map, its discontinuity flag is true, and its key is the key that was
\* active before line d.
C3_DiscontinuityClearsMapNotKey ==
    LET pos == SegSeq
    IN
    \A k \in 1..Len(segments) :
        \A d \in (PrevSegPos(pos, k) + 1)..(pos[k] - 1) :
            ( /\ Tagged(d, {"EXT-X-DISCONTINUITY"})
              /\ \E i \in 2..(d - 1) : KeyAt(i)
              /\ \E i \in 2..(d - 1) : MapAt(i)
              /\ \A j \in (d + 1)..(pos[k] - 1) : ~Tagged(j, {"EXT-X-MAP", "EXT-X-KEY"}) )
            => ( /\ segments[k].map = None
                 /\ segments[k].discontinuity
                 /\ segments[k].key # None
                 /\ segments[k].key = DeclaredKey(d) )

\* EXT-X-KEY, EXT-X-MAP, EXT-X-DISCONTINUITY, EXTINF and a segment line: the
\* Segment has no map, the flag, and the key declared before the discontinuity.
C3_Witness ==
    /\ Len(consumed) = 6
    /\ KeyAt(2) /\ MapAt(3) /\ Tagged(4, {"EXT-X-DISCONTINUITY"}) /\ SegmentAt(6)
    /\ Len(segments) = 1
    /\ segments[1].map = None /\ segments[1].discontinuity
    /\ segments[1].key # None /\ segments[1].key[1].method = "AES-128"

\* C4: key and map persist across segments.  Every Segment's key is the Key
\* of the most recent preceding EXT-X-KEY that carried a METHOD (absent if
\* none), its map is the Map of the most recent preceding EXT-X-MAP that
\* carried a URI and came after the most recent preceding
\* EXT-X-DISCONTINUITY (absent otherwise), and the parser's active key and
\* map are, after every line, those declared by the lines read so far, so
\* that appending a Segment neither clears nor changes them.
C4_KeyAndMapPersist ==
    LET pos == SegSeq
    IN
    /\ Len(segments) = Len(pos)
    /\ \A k \in 1..Len(segments) :
          /\ segments[k].key = DeclaredKey(pos[k])
          /\ segments[k].map = DeclaredMap(pos[k])
    /\ pc \in {"lines", "done"} =>
          /\ parser.key = DeclaredKey(Len(consumed) + 1)
          /\ parser.map = DeclaredMap(Len(consumed) + 1)

\* Two Segments after a single EXT-X-KEY: both carry its key, which is still
\* the active key after the second Segment was appended.
C4_Witness ==
    /\ Len(segments) = 2 /\ SegmentAt(Len(consumed))
    /\ KeyAt(2) /\ Cardinality({i \in 2..Len(consumed) : Tagged(i, {"EXT-X-KEY"})}) = 1
    /\ segments[1].key # None /\ segments[2].key = segments[1].key
    /\ parser.key = segments[2].key

\* ------------------------------------------------------------------------
\* Claims about variants.

\* The line consumed by the step, and the attribute list of its directive.
NewLine == consumed'[Len(consumed')]

\* The step consumed one more line while parse() was in its line loop.
LineStep == pc = "lines" /\ Len(consumed') = Len(consumed) + 1

\* A content line given to the parser object self is ignored: it changes
\* neither the Document nor the parser.
Ignored(self) == \A l \in {"s.ts", "v.m3u8"} : parse_line(self, l) = Ok(self)

\* C5 as stated: the line state machine is in one of the states idle,
\* expecting-segment-uri, expecting-variant-uri, and a content line that is
\* appended as a Segment or as a Variant returns it to idle: neither flag is
\* left set, and an immediately following content line is ignored and
\* appends nothing.
C5_ContentLineReturnsToIdle ==
    [][ ( /\ LineStep /\ pc' = "lines"
          /\ ~StartsWith(NewLine, "#")
          /\ (Len(segments') > Len(segments) \/ Len(playlists') > Len(playlists)) )
        => ( /\ ~parser'.expect_segment /\ ~parser'.expect_playlist
             /\ Ignored(parser') ) ]_vars

\* C6 as stated: an EXT-X-I-FRAME-STREAM-INF whose attribute list has a URI
\* appends exactly one Variant, with is_iframe true and the stream-info
\* decoded from the directive's own attribute list, and leaves the pending
\* state untouched: the pending EXT-X-STREAM-INF attributes and both
\* expectation flags.
C6_IFrameStreamInfIsSelfContained ==
    [][ ( /\ LineStep
          /\ TagOf[NewLine] = "EXT-X-I-FRAME-STREAM-INF"
          /\ Truthy(Get(AttrOf[NewLine], "URI")) )
        => ( /\ pc' = "lines"
             /\ playlists' =
                   Append(playlists,
                          Playlist(uri(parser, Get(AttrOf[NewLine], "URI")[1]),
                                   create_stream_info(AttrOf[NewLine], TRUE).value, TRUE))
             /\ parser'.streaminf = parser.streaminf
             /\ parser'.expect_playlist = parser.expect_playlist
             /\ parser'.expect_segment = parser.expect_segment ) ]_vars

\* C8: for every Document returned by parse(), is_master is true if and only
\* if the Document's variant list is not empty, Variants appended by
\* EXT-X-I-FRAME-STREAM-INF and the Document of an input with no lines
\* included.
C8_IsMasterIffVariants ==
    pc = "done" => (parser.m3u8.is_master <=> Len(playlists) > 0)

\* A Document was returned whose only Variant comes from an
\* EXT-X-I-FRAME-STREAM-INF directive, next to a Segment: it is a master.
C8_Witness ==
    /\ pc = "done" /\ parser.m3u8.is_master
    /\ Len(playlists) = 1 /\ playlists[1].is_iframe
    /\ Len(segments) = 1

\* C10 as stated: stream-info built from an attribute list whose BANDWIDTH is
\* "0", or that has no BANDWIDTH, is built without an exception and has
\* bandwidth 0, so that the content line after such an EXT-X-STREAM-INF
\* (no segment being expected) appends a Variant with bandwidth 0.
C10_ZeroBandwidthStaysZero ==
    LET n == Len(consumed)
    IN  ( /\ n >= 3
          /\ Tagged(n - 1, {"EXT-X-STREAM-INF"})
          /\ Get(AttrOf[consumed[n - 1]], "BANDWIDTH") \in {None, Some("0")}
          /\ ContentAt(n) /\ ~SegmentAt(n) )
        => ( /\ ~create_stream_info(AttrOf[consumed[n - 1]], FALSE).raised
             /\ create_stream_info(AttrOf[consumed[n - 1]], FALSE).value.bandwidth = 0
             /\ pc # "raised"
             /\ Len(playlists) > 0
             /\ playlists[Len(playlists)].stream_info.bandwidth = 0
             /\ ~playlists[Len(playlists)].is_iframe )

\* ------------------------------------------------------------------------
\* Claims about the association pass.

\* The entries of the Document's media list whose group identifier is the
\* playlist's reference of the given kind, in the order of that list; none
\* when the stream-info has no such reference.
GroupOf(playlist, kind) ==
    IF kind \in DOMAIN playlist.stream_info /\ Truthy(playlist.stream_info[kind])
    THEN SelectSeq(parser.m3u8.media,
                   LAMBDA m : m.group_id = playlist.stream_info[kind][1])
    ELSE <<>>

\* C7: after parse() completes, each Variant's media list is the
\* concatenation, over the kinds audio, video, subtitles in that order, of
\* the Document's AlternativeMedia entries whose group identifier equals the
\* Variant's non-empty reference of that kind, each in declaration order:
\* nothing is deduplicated, no entry of another group appears, and a Variant
\* without references has an empty list.
C7_AssociationPass ==
    pc = "done" =>
        \A i \in 1..Len(playlists) :
            playlists[i].media =
                GroupOf(playlists[i], "audio") \o GroupOf(playlists[i], "video")
                    \o GroupOf(playlists[i], "subtitles")

\* Two entries of group "aac" and one of group "mp3" were declared, then a
\* Variant that references the audio group "aac": it has the two "aac"
\* entries, in declaration order.
C7_Witness ==
    /\ pc = "done"
    /\ Len(parser.m3u8.media) = 3
    /\ Len(playlists) = 1
    /\ playlists[1].stream_info.audio = Some("aac")
    /\ playlists[1].stream_info.video = None
    /\ Len(playlists[1].media) = 2
    /\ playlists[1].media[1].name = "a" /\ playlists[1].media[2].name = "b"

\* ------------------------------------------------------------------------
\* Claims about the bandwidth of a Variant.

\* floor(log10(b)) of a positive integer: the k with 10^k <= b < 10^(k+1).
FloorLog10(b) == CHOOSE k \in 0..9 : Pow10(k) <= b /\ (k = 9 \/ b < Pow10(k + 1))

\* r is b rounded to 2 significant figures: the multiple of
\* 10^(floor(log10 b) - 1) nearest to b, an exact half going to the even
\* multiple; b itself below 100.
RoundedTo2Figures(b, r) ==
    LET m == Pow10(FloorLog10(b) - 1)
        d == IF r >= b THEN r - b ELSE b - r
    IN  /\ r % m = 0
        /\ 2 * d <= m
        /\ (2 * d = m => (r \div m) % 2 = 0)
        /\ (b < 100 => r = b)
        /\ FloorLog10(r) \in {FloorLog10(b), FloorLog10(b) + 1}

\* The bandwidth value b that each line BandwidthLine(b) declares.
BandwidthOf ==
    [l \in {BandwidthLine(b) : b \in BandwidthValues} |->
        CHOOSE b \in BandwidthValues : BandwidthLine(b) = l]

\* C11: bandwidth is rounded to 2 significant figures.  The Variant built
\* from a directive with BANDWIDTH=b, b a positive integer, stores the
\* multiple of 10^(floor(log10 b) - 1) nearest to b, an exact half rounded to
\* the even multiple; a value below 100 is stored unchanged, and the result
\* has as many decimal digits as b or one more.
C11_BandwidthRoundedTo2Figures ==
    (Len(consumed) >= 2 /\ consumed[Len(consumed)] \in DOMAIN BandwidthOf) =>
        /\ pc # "raised"
        /\ Len(playlists) > 0
        /\ RoundedTo2Figures(BandwidthOf[consumed[Len(consumed)]],
                             playlists[Len(playlists)].stream_info.bandwidth)

\* BANDWIDTH=995 was stored as 1000: an exact half, rounded to the even
\* multiple 100 * 10, which has one digit more.
C11_Witness ==
    /\ consumed = <<Header, BandwidthLine(995)>>
    /\ Len(playlists) = 1
    /\ playlists[1].stream_info.bandwidth = 1000

\* ------------------------------------------------------------------------
\* Claims about attribute lists.

\* The mapping an attribute list made of the entries es declares: every
\* KEY=VALUE entry, the last one winning for a repeated key; nothing when an
\* entry is not of the grammar.
DeclaredAttributes(es) ==
    IF \E i \in DOMAIN es : ~es[i].ok THEN EmptyAttr
    ELSE [k \in {es[i].key : i \in DOMAIN es} |->
            es[CHOOSE i \in DOMAIN es :
                  es[i].key = k /\ \A j \in DOMAIN es : es[j].key = k => j <= i].value]

\* For each directive line built from entries, the mapping its list declares.
AttributesOf ==
    [l \in {AttrLine(es) : es \in AttrEntryLists} |->
        DeclaredAttributes(CHOOSE es \in AttrEntryLists : AttrLine(es) = l)]

\* C12: attribute-list parsing is all-or-nothing.  parse_attributes returns
\* the mapping of every KEY=VALUE entry of the list (quotes stripped, a comma
\* inside a quoted string kept, the last occurrence of a key winning) when
\* every entry matches, and the empty mapping when any entry fails to match:
\* never the entries that preceded the failing one.  Observed on the pending
\* attributes that EXT-X-STREAM-INF stores.
C12_AttributesAllOrNothing ==
    (Len(consumed) >= 2 /\ consumed[Len(consumed)] \in DOMAIN AttributesOf) =>
        /\ pc # "raised"
        /\ parser.streaminf = Some(AttributesOf[consumed[Len(consumed)]])

\* A list whose first entry matches and whose second entry does not: the
\* result is empty, the first entry is not kept.
C12_Witness ==
    /\ consumed = <<Header, "#EXT-X-STREAM-INF:A=\"a,b\",B=\"a">>
    /\ parser.streaminf = Some(EmptyAttr)

\* ------------------------------------------------------------------------
\* Claims about directives without a value and about ignored lines.

\* The step consumed a line that names a registered tag and has no ":value".
BareStep(tags) ==
    /\ LineStep
    /\ TagOf[NewLine] \in tags
    /\ NewLine = "#" \o TagOf[NewLine]

\* C13 as stated: a line that names a registered tag but has no ":value"
\* part is ignored: no handler is dispatched, and the pending state and the
\* Document are unchanged.
C13_BareDirectiveIsIgnored ==
    [][ BareStep(DOMAIN TAGS) => (pc' = "lines" /\ parser' = parser) ]_vars

\* C13 amended: a line that names a registered tag but has no ":value" part
\* is dispatched with the empty string as its value.  A bare EXT-X-ENDLIST
\* sets is_endlist, a bare EXT-X-DISCONTINUITY sets the pending discontinuity
\* flag and clears the active map, a bare EXT-X-I-FRAMES-ONLY sets
\* iframes_only; each of them changes nothing else of the pending state and
\* of the Document.
C13_BareDirectiveIsDispatched ==
    [][ /\ BareStep({"EXT-X-ENDLIST"}) =>
            (pc' = "lines" /\ parser' = [parser EXCEPT !.m3u8.is_endlist = TRUE])
        /\ BareStep({"EXT-X-DISCONTINUITY"}) =>
            (pc' = "lines" /\ parser' = [parser EXCEPT !.discontinuity = TRUE, !.map = None])
        /\ BareStep({"EXT-X-I-FRAMES-ONLY"}) =>
            (pc' = "lines" /\ parser' = [parser EXCEPT !.m3u8.iframes_only = Some(TRUE)])
      ]_vars

\* After EXT-X-MAP, a bare EXT-X-DISCONTINUITY and a bare EXT-X-ENDLIST: the
\* flag is pending, the map is gone and the Document is marked as ended.
C13_Witness ==
    /\ consumed = <<Header, "#EXT-X-MAP:URI=\"m\"", "#EXT-X-DISCONTINUITY", "#EXT-X-ENDLIST">>
    /\ pc = "lines"
    /\ parser.discontinuity /\ parser.map = None /\ parser.m3u8.is_endlist

\* C14: ignored lines change nothing.  A sentinel line that does not have the
\* shape of a tag or whose tag is not in the registry, and a content line
\* that arrives while neither a segment nor a variant is expected, leave
\* every pending field and every field and list of the Document unchanged.
C14_IgnoredLinesChangeNothing ==
    [][ ( /\ LineStep
          /\ \/ StartsWith(NewLine, "#") /\ TagOf[NewLine] \notin DOMAIN TAGS
             \/ /\ ~StartsWith(NewLine, "#")
                /\ ~parser.expect_segment /\ ~parser.expect_playlist )
        => (pc' = "lines" /\ parser' = parser) ]_vars

\* An unknown directive and a line without the shape of a tag came between
\* EXTINF and the URI line: the Segment was appended with the pending
\* duration.
C14_Witness ==
    /\ consumed = <<Header, "#EXTINF:4,", "#EXT-X-FOO:1", "# comment", "s.ts">>
    /\ Len(segments) = 1
    /\ segments[1].duration = [num |-> 4, exp |-> 0]
    /\ ~parser.expect_segment

\* ------------------------------------------------------------------------
\* Claims about EXT-X-MEDIA.
media == parser.m3u8.media

\* C15: an EXT-X-MEDIA directive whose attribute list lacks a non-empty TYPE,
\* GROUP-ID or NAME, or was discarded as invalid, appends nothing to the
\* media list and changes no other state; one that has all three appends
\* exactly one entry, at the end of the list, and changes nothing else.
C15_MediaRequiresTypeGroupName ==
    [][ /\ (LineStep /\ NewLine \in IncompleteMedia) =>
              (pc' = "lines" /\ parser' = parser)
        /\ (LineStep /\ NewLine \in DOMAIN CompleteMedia) =>
              /\ pc' = "lines"
              /\ Len(media') = Len(media) + 1
              /\ SubSeq(media', 1, Len(media)) = media
              /\ media'[Len(media')].type = CompleteMedia[NewLine].type
              /\ media'[Len(media')].group_id = CompleteMedia[NewLine].group_id
              /\ media'[Len(media')].name = CompleteMedia[NewLine].name
              /\ parser' = [parser EXCEPT !.m3u8.media = media']
      ]_vars

\* A complete directive, one with an empty NAME and another complete one:
\* two entries, in that order.
C15_Witness ==
    /\ Len(consumed) = 4
    /\ consumed[2] \in DOMAIN CompleteMedia
    /\ consumed[3] = "#EXT-X-MEDIA:TYPE=AUDIO,GROUP-ID=\"g\",NAME=\"\""
    /\ consumed[4] \in DOMAIN CompleteMedia /\ consumed[4] # consumed[2]
    /\ Len(media) = 2
    /\ media[1].name = CompleteMedia[consumed[2]].name
    /\ media[2].name = CompleteMedia[consumed[4]].name

\* ------------------------------------------------------------------------
\* Claims about reference resolution.

\* The references of UriLines that have a scheme, and what the scheme-less
\* ones are when joined onto the base location http://h/a/i.m3u8.
AbsoluteRefs == {"http://other/x.ts", "http://h/a/seg1.ts"}

JoinedRefs ==
    ("seg1.ts" :> "http://h/a/seg1.ts") @@
    ("sub/seg.ts" :> "http://h/a/sub/seg.ts") @@
    ("/x/seg.ts" :> "http://h/x/seg.ts")

\* C17: reference resolution.  A reference that has a scheme is returned
\* unchanged whatever the base, every reference is returned unchanged when
\* no base location is known, a scheme-less reference is joined onto a known
\* base, and resolving a resolved absolute result again returns it unchanged.
\* Observed on the uri of every Segment, resolved from its line.
C17_ReferenceResolution ==
    LET pos == SegSeq
        base == parser.m3u8.uri
    IN  /\ Len(segments) = Len(pos)
        /\ \A k \in 1..Len(segments) :
              LET ref == consumed[pos[k]]
              IN  /\ ref \in AbsoluteRefs => segments[k].uri = ref
                  /\ base = None => segments[k].uri = ref
                  /\ (ref \notin AbsoluteRefs /\ base = Some("http://h/a/i.m3u8")) =>
                        /\ segments[k].uri = JoinedRefs[ref]
                        /\ uri(parser, segments[k].uri) = segments[k].uri

\* With a base location: a relative reference was joined onto it, and the
\* line that is already its resolved form was left as it is.
C17_Witness ==
    /\ parser.m3u8.uri = Some("http://h/a/i.m3u8")
    /\ consumed = <<Header, "#EXTINF:4,", "seg1.ts", "#EXTINF:4,", "http://h/a/seg1.ts">>
    /\ Len(segments) = 2
    /\ segments[1].uri = "http://h/a/seg1.ts"
    /\ segments[2].uri = segments[1].uri

\* ------------------------------------------------------------------------
\* Claims about the sequence counters.

\* The lines of consumed that are an EXT-X-DISCONTINUITY-SEQUENCE directive.
DiscontinuitySequenceAt ==
    {i \in 2..Len(consumed) : StartsWith(consumed[i], "#EXT-X-DISCONTINUITY-SEQUENCE:")}

\* C18 as stated: after a line #EXT-X-DISCONTINUITY-SEQUENCE:N was processed
\* the Document's discontinuity-sequence counter is N, the N of the last such
\* line; it is absent only when there was no such line.
C18_DiscontinuitySequenceIsStored ==
    DiscontinuitySequenceAt # {} =>
        parser.m3u8.discontinuity_sequence =
            py_int(ValueOf[consumed[Last(DiscontinuitySequenceAt)]])

\* ------------------------------------------------------------------------
\* Claims about the date-range test.

\* The offset of an instant of DateAt.
OffsetOf(dt) == CHOOSE o \in DOMAIN DateAt : parse_iso8601(Some(DateAt[o])) = Some(dt)

\* start <= date < start + td, on the offsets, in microseconds.
WithinDuration(start, date, td) ==
    /\ OffsetOf(start) <= OffsetOf(date)
    /\ OffsetOf(date) * 1000 < OffsetOf(start) * 1000 + (td.seconds.num * Pow10(3 - td.seconds.exp))

\* C19 as stated: with date and start date present, an end date decides
\* whatever the durations are; otherwise a present duration, a zero duration
\* included, decides and the planned duration is not used; otherwise the
\* planned duration decides; with none of the three the result is
\* start <= date.  With date or start date absent the result is unknown.
C19_EffectiveEnd ==
    call # NoCall =>
        LET date == call.date
            r == call.daterange
        IN  IF date = None \/ r.start_date = None THEN call.result = None
            ELSE LET d == OffsetOf(date[1])
                     s == OffsetOf(r.start_date[1])
                 IN  IF r.end_date # None
                     THEN call.result = Some(s <= d /\ d < OffsetOf(r.end_date[1]))
                     ELSE IF r.duration # None
                     THEN call.result = Some(WithinDuration(r.start_date[1], date[1], r.duration[1]))
                     ELSE IF r.planned_duration # None
                     THEN call.result =
                            Some(WithinDuration(r.start_date[1], date[1], r.planned_duration[1]))
                     ELSE call.result = Some(s <= d)

\* ------------------------------------------------------------------------
\* Claims about the tag registry.

\* The class and its ancestors.
RECURSIVE Lineage(_)
Lineage(cls) ==
    IF classes[cls].parent = None THEN {cls}
    ELSE {cls} \cup Lineage(classes[cls].parent[1])

\* C20: the registry of a subclass holds every entry of its parent's registry
\* except for the tags the subclass declares itself, which map to the
\* subclass's handler; the registry of M3U8Parser is what it was before any
\* subclass was defined; and a parse through a class dispatches only to
\* handlers of that class and its ancestors, never to a subclass's.
C20_RegistryPerClass ==
    /\ classes[BaseClass]._TAGS = [t \in DOMAIN TAGS |-> Handler(BaseClass, TAGS[t])]
    /\ \A c \in DOMAIN classes \ {BaseClass} :
          LET own == classes[c].declared
              inherited == classes[classes[c].parent[1]]._TAGS
              tags == classes[c]._TAGS
          IN  /\ DOMAIN tags = DOMAIN inherited \cup DOMAIN own
              /\ \A t \in DOMAIN own : tags[t] = Handler(c, own[t])
              /\ \A t \in DOMAIN inherited \ DOMAIN own : tags[t] = inherited[t]
    /\ (dispatched # NoDispatch /\ dispatched.handler # None) =>
          dispatched.handler[1].cls \in Lineage(dispatched.cls)

\* A overrides EXT-X-VERSION and adds a vendor tag, B extends A; a version
\* line parsed through M3U8Parser reached the handler of M3U8Parser.
C20_Witness ==
    /\ DOMAIN classes = {BaseClass, "A", "B"}
    /\ classes["A"].parent = Some(BaseClass)
    /\ classes["B"].parent = Some("A")
    /\ DOMAIN classes["A"].declared = {"EXT-X-VERSION", "EXT-X-VENDOR"}
    /\ classes["B"]._TAGS["EXT-X-VERSION"] = Handler("A", "parse_tag_ext_x_version")
    /\ dispatched # NoDispatch
    /\ dispatched.cls = BaseClass
    /\ dispatched.line = "#EXT-X-VERSION:3"
    /\ dispatched.handler = Some(Handler(BaseClass, "parse_tag_ext_x_version"))

\* ------------------------------------------------------------------------
\* Claims about concurrent parses.

\* parse_line over lines[i..], stopping at the first exception.
RECURSIVE FoldLines(_, _, _)
FoldLines(self, lines, i) ==
    IF i > Len(lines) THEN Ok(self)
    ELSE LET r == parse_line(self, lines[i])
         IN  IF r.raised THEN r ELSE FoldLines(r.self, lines, i + 1)

\* The invocation inv = [pc, consumed, parser] is where a parse that runs
\* alone is after the same lines, and holds the same parser and Document.
AsAlone(inv) ==
    LET fresh == M3U8Parser(inv.parser.m3u8.uri)
    IN  IF inv.consumed = <<>> THEN inv.pc \in {"start", "done"} /\ inv.parser = fresh
        ELSE IF ~HasHeader(inv.consumed[1])
        THEN inv.pc = "header_error" /\ Len(inv.consumed) = 1 /\ inv.parser = fresh
        ELSE LET r == FoldLines(fresh, inv.consumed, 2)
             IN  IF r.raised THEN inv.pc = "raised" /\ inv.parser = r.self
                 ELSE \/ inv.pc = "lines" /\ inv.parser = r.self
                      \/ /\ inv.pc = "done"
                         /\ inv.parser = [r.self EXCEPT !.m3u8 = SetIsMaster(Associate(r.self.m3u8))]

dateranges == parser.m3u8.dateranges

\* new is old, or old with one entry appended at the end.
GrownByAtMostOne(old, new) ==
    \/ new = old
    \/ Len(new) = Len(old) + 1 /\ SubSeq(new, 1, Len(old)) = old

\* The number of entries in the four lists of a Document.
Entities(m3u8) ==
    Len(m3u8.segments) + Len(m3u8.playlists) + Len(m3u8.media) + Len(m3u8.dateranges)

\* The number of lines of a line sequence that are a directive of tags.
Directives(lines, tags) == Cardinality({i \in 2..Len(lines) : TagOf[lines[i]] \in tags})

NonIFrame(list) == Cardinality({i \in DOMAIN list : ~list[i].is_iframe})

\* C21: each processed line appends at most one entity, to at most one of the
\* four lists, at its end, and the earlier entries stay as they are; after
\* it there are at most as many Segments as EXTINF and EXT-X-BYTERANGE
\* directives and at most as many non-iframe Variants as EXT-X-STREAM-INF
\* directives processed so far; the end of the stream appends nothing.
C21_ListsGrowAtTheEnd ==
    [][ /\ LineStep =>
              /\ GrownByAtMostOne(segments, segments')
              /\ GrownByAtMostOne(playlists, playlists')
              /\ GrownByAtMostOne(media, media')
              /\ GrownByAtMostOne(dateranges, dateranges')
              /\ Entities(parser'.m3u8) <= Entities(parser.m3u8) + 1
              /\ Len(segments') <= Directives(consumed', {"EXTINF", "EXT-X-BYTERANGE"})
              /\ NonIFrame(playlists') <= Directives(consumed', {"EXT-X-STREAM-INF"})
        /\ (pc = "lines" /\ pc' = "done") =>
              /\ segments' = segments
              /\ media' = media
              /\ dateranges' = dateranges
              /\ Len(playlists') = Len(playlists)
      ]_vars

\* The stream ended with an EXTINF and an EXT-X-STREAM-INF left pending after
\* one Segment: the Document holds that one Segment and no Variant.
C21_Witness ==
    /\ pc = "done"
    /\ consumed = <<Header, "#EXTINF:4,", "s.ts", "#EXTINF:4,", "#EXT-X-STREAM-INF:BANDWIDTH=1000">>
    /\ Len(segments) = 1
    /\ playlists = <<>>

\* ------------------------------------------------------------------------
\* Claims about data without a non-empty line.

\* C22: data with no non-empty line at all, the empty string or empty lines
\* only, is not treated as a missing header: parse() returns without error
\* the initial empty Document, with no segments, variants, media or date
\* ranges, is_master and is_endlist false and every header field absent.
C22_EmptyInputIsNoError ==
    (\A i \in DOMAIN consumed : consumed[i] = "") =>
        /\ pc \in {"start", "done"}
        /\ segments = <<>> /\ playlists = <<>> /\ media = <<>> /\ dateranges = <<>>
        /\ ~parser.m3u8.is_master /\ ~parser.m3u8.is_endlist
        /\ \A f \in {"allow_cache", "discontinuity_sequence", "iframes_only", "media_sequence",
                     "playlist_type", "targetduration", "start", "version"} :
              parser.m3u8[f] = None

\* parse() has returned for data that held two empty lines and nothing else.
C22_Witness ==
    /\ pc = "done"
    /\ consumed = <<>>
    /\ dropped = 2
    /\ parser.m3u8.segments = <<>>

====
